---- MODULE Spec2Model ----
(***************************************************************************)
(* MCPClient (src/unnamed/part_006, lines 345-703): the JSON-RPC client    *)
(* that spawns tool-server subprocesses, performs the initialize /         *)
(* tools/list handshake and correlates responses with pending requests.    *)
(*                                                                         *)
(* JavaScript runs every event handler to completion and drains the        *)
(* promise job queue before the next event: `jobs` is that queue, and no   *)
(* event action is enabled while it is non-empty.                          *)
(***************************************************************************)
EXTENDS Integers, Sequences, FiniteSets, TLC

VARIABLES
    config,         \* MCPClient.config: Object.keys(config.mcpServers), in order
    requestId,      \* MCPClient.requestId
    connections,    \* MCPClient.connections: server name -> connection object (0: no entry)
    conn,           \* the ServerConnection objects ever created, by identity
    proc,           \* the subprocesses ever spawned; proc[p] belongs to conn[p]
    req,            \* the promises made by sendRequest, by request id
    call,           \* the connectServer invocations (their frames)
    jobs,           \* the promise job queue (continuations after an await)
    all,            \* the frame of the connectAll invocation
    fed,            \* history: the stdout bytes delivered so far (framing runs)
    parsed          \* history: the messages JSON.parse returned so far (framing runs)

vars == <<config, requestId, connections, conn, proc, req, call, jobs, all, fed, parsed>>

\* src/tools/mcp-bridge.ts and the ToolRegistry of src/unnamed/part_009
VARIABLES
    discovered,     \* what connectAll returned to registerMCPTools: the Map's entries, in order
    registry,       \* ToolRegistry.tools: registered name -> executor
    bridge,         \* the registerMCPTools invocation and its return value
    executed,       \* history: the registered names whose executor was run
    toolCallLogs    \* toolCallLogs of mcp-bridge.ts

bridgeVars == <<discovered, registry, bridge, executed, toolCallLogs>>

\* the state of the modules a run does not exercise
NoRegistry == [n \in {} |-> 0]
BridgeUnused ==
    /\ discovered = <<>>
    /\ registry = NoRegistry
    /\ bridge = [pc |-> "idle", totalTools |-> 0]
    /\ executed = <<>>
    /\ toolCallLogs = <<>>

\* Agent (src/src/chat.ts) and ChatCompressService (src/unnamed/part_005)
VARIABLES
    maxIterations,  \* Agent.config.maxIterations
    compressConfig, \* ChatCompressService.config
    agent,          \* Agent.state: messages, iterations, isRunning
    chat,           \* the frame of the Agent.chat invocation
    compress,       \* the frame of the ChatCompressService.compress invocation
    backend,        \* history: the ModelClient.chat calls, with what was submitted
    trace,          \* history: starts and ends of the executor runs
    returned        \* history: how each Agent.chat invocation ended

agentVars == <<maxIterations, compressConfig, agent, chat, compress, backend, trace, returned>>

\* new Agent(): lines 42-55 of chat.ts; no compress invocation yet
NoFrame == [pc |-> "idle", finalResponse |-> <<>>, pending |-> <<>>]
NoCompress == [pc |-> "idle", input |-> <<>>, output |-> <<>>, requests |-> 0]
NewAgentState == [messages |-> <<>>, iterations |-> 0, isRunning |-> FALSE]
InitAgentState ==
    /\ agent = NewAgentState
    /\ chat = NoFrame
    /\ compress = NoCompress
    /\ backend = <<>>
    /\ trace = <<>>
    /\ returned = <<>>
AgentUnused ==
    /\ maxIterations = 0
    /\ compressConfig = [maxTokens |-> 0, keepRecentMessages |-> 0]
    /\ InitAgentState

Unused == BridgeUnused /\ AgentUnused
unusedVars == <<bridgeVars, agentVars>>

(* ------------------------------ bounds --------------------------------- *)

\* operations of a run: requests sent, connectServer invocations,
\* disconnections and subprocess exits (all unbounded in the code)
MaxOps == 5
\* operations of a run under fair scheduling
MaxLiveOps == 4
\* lines in a stdout stream of the framing runs
MaxLines == 2

(* ------------------------------ config --------------------------------- *)

\* the server names a configuration may hold
Servers == {"a", "b", "c"}

Configured == {config[i] : i \in 1..Len(config)}

\* result texts a server may send, as character strings; "U" is a two-byte
\* UTF-8 character, "x" an ASCII one
Payloads == {<<"x">>, <<"U">>}

(* --------------------------- wire format ------------------------------- *)

\* Bytes on the subprocess's stdout.  "L" and "C" are the lead and the
\* continuation byte of a two-byte UTF-8 character; Digits[i] is the decimal
\* text of the id i.
Digits == <<"1", "2", "3", "4", "5", "6", "7", "8", "9">>
DigitSet == {Digits[i] : i \in 1..Len(Digits)}
NumberOf(d) == CHOOSE i \in 1..Len(Digits) : Digits[i] = d

\* UTF-8 encoding of a text
RECURSIVE EncodePayload(_)
EncodePayload(v) ==
    IF v = <<>> THEN <<>>
    ELSE (IF Head(v) = "U" THEN <<"L", "C">> ELSE <<Head(v)>>) \o EncodePayload(Tail(v))

ResultLine(i, v) == <<"{", Digits[i], "r">> \o EncodePayload(v) \o <<"}", "\n">>
ErrorLine(i, v) == <<"{", Digits[i], "e">> \o EncodePayload(v) \o <<"}", "\n">>
NotificationLine(v) == <<"{">> \o EncodePayload(v) \o <<"}", "\n">>
GarbageLine == <<"x", "\n">>
BlankLine == <<" ", "\n">>

\* Buffer.toString(): UTF-8 decoding of one chunk on its own.  A lead byte
\* without its continuation byte, and a continuation byte without its lead
\* byte, each decode to U+FFFD ("?").
RECURSIVE BufferToString(_)
BufferToString(bytes) ==
    IF bytes = <<>> THEN <<>>
    ELSE IF Head(bytes) = "L"
         THEN IF Len(bytes) >= 2 /\ bytes[2] = "C"
              THEN <<"U">> \o BufferToString(Tail(Tail(bytes)))
              ELSE <<"?">> \o BufferToString(Tail(bytes))
         ELSE IF Head(bytes) = "C"
              THEN <<"?">> \o BufferToString(Tail(bytes))
              ELSE <<Head(bytes)>> \o BufferToString(Tail(bytes))

\* String.split('\n')
RECURSIVE SplitLines(_, _)
SplitLines(str, cur) ==
    IF str = <<>> THEN <<cur>>
    ELSE IF Head(str) = "\n"
         THEN <<cur>> \o SplitLines(Tail(str), <<>>)
         ELSE SplitLines(Tail(str), Append(cur, Head(str)))

\* String.trim()
RECURSIVE TrimLeft(_)
TrimLeft(s) == IF s # <<>> /\ Head(s) = " " THEN TrimLeft(Tail(s)) ELSE s

RECURSIVE TrimRight(_)
TrimRight(s) ==
    IF s # <<>> /\ s[Len(s)] = " " THEN TrimRight(SubSeq(s, 1, Len(s) - 1)) ELSE s

Trim(s) == TrimRight(TrimLeft(s))

\* the characters of a text: ASCII, two-byte, U+FFFD
TextChars == {"x", "U", "?"}

IsText(s) == Len(s) >= 1 /\ \A i \in 1..Len(s) : s[i] \in TextChars

\* JSON.parse(trimmed) as JsonRpcResponse; ok = FALSE when it throws.
\* id = 0 stands for `response.id === undefined`.
NoMessage == [ok |-> FALSE, id |-> 0, error |-> FALSE, value |-> <<>>]

JsonParse(t) ==
    IF Len(t) >= 5 /\ t[1] = "{" /\ t[2] \in DigitSet /\ t[3] \in {"r", "e"}
       /\ IsText(SubSeq(t, 4, Len(t) - 1)) /\ t[Len(t)] = "}"
    THEN [ok |-> TRUE, id |-> NumberOf(t[2]), error |-> (t[3] = "e"),
          value |-> SubSeq(t, 4, Len(t) - 1)]
    ELSE IF Len(t) >= 3 /\ t[1] = "{" /\ IsText(SubSeq(t, 2, Len(t) - 1)) /\ t[Len(t)] = "}"
         THEN [ok |-> TRUE, id |-> 0, error |-> FALSE, value |-> SubSeq(t, 2, Len(t) - 1)]
         ELSE NoMessage

(* ------------------------------ objects -------------------------------- *)

\* `result?.tools || []` of a result without tools; the tools of a new connection
NoTools == <<>>

\* new ServerConnection (lines 397-404); `process` is the object's own index
NewConnection == [ready |-> FALSE, tools |-> NoTools, pendingRequests |-> {}, buffer |-> <<>>]

\* the ChildProcess returned by spawn (line 392)
NewProcess(name, spawned) ==
    [name |-> name, state |-> IF spawned THEN "running" ELSE "failed",
     stdin |-> <<>>, stdinEnded |-> FALSE]

\* the promise of one sendRequest and its timer (lines 522-528);
\* awaiter: the connectServer frame awaiting it (0: a callTool caller)
NewRequest(c, method, awaiter) ==
    [conn |-> c, method |-> method, awaiter |-> awaiter, state |-> "pending",
     timer |-> "armed", settles |-> 0, value |-> <<>>]

\* pending.resolve / pending.reject / reject in the timer: the completion sink
Settle(reqs, id, state, value) ==
    [reqs EXCEPT ![id].state = state, ![id].settles = @ + 1, ![id].value = value]

ClearTimeout(reqs, id) == [reqs EXCEPT ![id].timer = "cleared"]

\* a promise reaction job: the continuation of frame `call` after its await
Job(kind, k, id, ok, tools) ==
    [kind |-> kind, call |-> k, id |-> id, ok |-> ok, tools |-> tools]

\* the reaction job of the frame awaiting request id, if any
Awaken(queue, reqs, id) ==
    IF reqs[id].awaiter # 0
    THEN Append(queue, Job("request", reqs[id].awaiter, id, TRUE, NoTools))
    ELSE queue

(* ------------------------- handleServerData ---------------------------- *)

\* the loop without `connection.pendingRequests.delete(response.id)`
RECURSIVE ProcessLinesKeepEntry(_, _)
ProcessLinesKeepEntry(lines, R) ==
    IF lines = <<>> THEN R
    ELSE LET trimmed == Trim(Head(lines))
             response == JsonParse(trimmed)
         IN IF trimmed = <<>> \/ ~response.ok
            THEN ProcessLinesKeepEntry(Tail(lines), R)
            ELSE IF response.id # 0 /\ response.id \in R.pendingRequests
                 THEN ProcessLinesKeepEntry(Tail(lines),
                        [pendingRequests |-> R.pendingRequests,
                         req |-> Settle(ClearTimeout(R.req, response.id), response.id,
                                        IF response.error THEN "error" ELSE "result",
                                        response.value),
                         jobs |-> Awaken(R.jobs, R.req, response.id)])
                 ELSE ProcessLinesKeepEntry(Tail(lines), R)

\* the loop handing a response to the oldest pending request of the
\* connection, whatever its id
RECURSIVE ProcessLinesOldestPending(_, _)
ProcessLinesOldestPending(lines, R) ==
    IF lines = <<>> THEN R
    ELSE LET trimmed == Trim(Head(lines))
             response == JsonParse(trimmed)
         IN IF trimmed = <<>> \/ ~response.ok
            THEN ProcessLinesOldestPending(Tail(lines), R)
            ELSE IF response.id # 0 /\ response.id \in R.pendingRequests
                 THEN LET oldest == CHOOSE i \in R.pendingRequests :
                                       \A j \in R.pendingRequests : i <= j
                      IN ProcessLinesOldestPending(Tail(lines),
                           [pendingRequests |-> R.pendingRequests \ {oldest},
                            req |-> Settle(ClearTimeout(R.req, oldest), oldest,
                                           IF response.error THEN "error" ELSE "result",
                                           response.value),
                            jobs |-> Awaken(R.jobs, R.req, oldest)])
                 ELSE ProcessLinesOldestPending(Tail(lines), R)

\* the loop with the try / catch around it: a line that does not parse ends it
RECURSIVE ProcessLinesStopAtMalformed(_, _)
ProcessLinesStopAtMalformed(lines, R) ==
    IF lines = <<>> THEN R
    ELSE LET trimmed == Trim(Head(lines))
             response == JsonParse(trimmed)
         IN IF trimmed = <<>> THEN ProcessLinesStopAtMalformed(Tail(lines), R)
            ELSE IF ~response.ok THEN R
            ELSE IF response.id # 0 /\ response.id \in R.pendingRequests
                 THEN ProcessLinesStopAtMalformed(Tail(lines),
                        [pendingRequests |-> R.pendingRequests \ {response.id},
                         req |-> Settle(ClearTimeout(R.req, response.id), response.id,
                                        IF response.error THEN "error" ELSE "result",
                                        response.value),
                         jobs |-> Awaken(R.jobs, R.req, response.id)])
                 ELSE ProcessLinesStopAtMalformed(Tail(lines), R)

\* lines 565-592: the loop over the complete lines.  R carries the
\* connection's pendingRequests, the promises and the job queue.
RECURSIVE ProcessLines(_, _)
ProcessLines(lines, R) ==
    IF lines = <<>> THEN R
    ELSE LET trimmed == Trim(Head(lines))
             response == JsonParse(trimmed)
         IN IF trimmed = <<>> \/ ~response.ok
            THEN ProcessLines(Tail(lines), R)
            ELSE IF response.id # 0 /\ response.id \in R.pendingRequests
                 THEN ProcessLines(Tail(lines),
                        [pendingRequests |-> R.pendingRequests \ {response.id},
                         req |-> Settle(ClearTimeout(R.req, response.id), response.id,
                                        IF response.error THEN "error" ELSE "result",
                                        response.value),
                         jobs |-> Awaken(R.jobs, R.req, response.id)])
                 ELSE ProcessLines(Tail(lines), R)

\* String.split('\n') of the buffer with the decoded chunk appended,
\* lines 559-562
BufferedLines(buffer, data) == SplitLines(buffer \o BufferToString(data), <<>>)

\* all but the last element: the complete lines (after lines.pop(), line 563)
CompleteLines(lines) == SubSeq(lines, 1, Len(lines) - 1)

\* the objects JSON.parse returns for the complete lines (line 570)
RECURSIVE ParsedObjects(_)
ParsedObjects(lines) ==
    IF lines = <<>> THEN <<>>
    ELSE LET trimmed == Trim(Head(lines))
             response == JsonParse(trimmed)
         IN (IF trimmed = <<>> \/ ~response.ok THEN <<>> ELSE <<response>>)
            \o ParsedObjects(Tail(lines))

\* handleServerData(serverName, data), lines 554-593: the new connection
\* objects, promises and job queue
HandleServerData(serverName, data) ==
    LET c == connections[serverName] IN
    IF c = 0 THEN [conn |-> conn, req |-> req, jobs |-> jobs]
    ELSE CHOOSE out \in
           {[conn |-> [conn EXCEPT ![c].buffer = lines[Len(lines)],
                                   ![c].pendingRequests = R.pendingRequests],
             req |-> R.req, jobs |-> R.jobs] :
              <<lines, R>> \in
                {<<l, ProcessLines(CompleteLines(l),
                                   [pendingRequests |-> conn[c].pendingRequests,
                                    req |-> req, jobs |-> jobs])>> :
                   l \in {BufferedLines(conn[c].buffer, data)}}} : TRUE

(* ------------------------- sendRequest / notify ------------------------ *)

\* sendRequest with `this.requestId + 1` in place of `++this.requestId`
SendRequestSameId(serverName, method, awaiter) ==
    LET c == connections[serverName]
        id == requestId + 1
    IN /\ requestId' = requestId
       /\ req' = Append(req, NewRequest(c, method, awaiter))
       /\ conn' = [conn EXCEPT ![c].pendingRequests = @ \cup {id}]
       /\ proc' = [proc EXCEPT ![c].stdin = Append(@, [method |-> method, id |-> id])]

\* sendRequest with a counter kept by the connection, starting at 1 for each
\* new connection, in place of the client's `++this.requestId`
SendRequestPerConnection(serverName, method, awaiter) ==
    LET c == connections[serverName]
        id == Len(proc[c].stdin) + 1
    IN /\ requestId' = requestId + 1
       /\ req' = Append(req, NewRequest(c, method, awaiter))
       /\ conn' = [conn EXCEPT ![c].pendingRequests = @ \cup {id}]
       /\ proc' = [proc EXCEPT ![c].stdin = Append(@, [method |-> method, id |-> id])]

\* sendRequest(serverName, method, params), lines 508-533, when the server
\* has a connection entry: the id, the promise with its timer, the pending
\* entry and the write to stdin.  (Without an entry it throws, line 511: the
\* callers below branch on that.)
SendRequest(serverName, method, awaiter) ==
    LET c == connections[serverName]
        id == requestId + 1
    IN /\ requestId' = id
       /\ req' = Append(req, NewRequest(c, method, awaiter))
       /\ conn' = [conn EXCEPT ![c].pendingRequests = @ \cup {id}]
       /\ proc' = [proc EXCEPT ![c].stdin = Append(@, [method |-> method, id |-> id])]

\* sendNotification(serverName, method, params), lines 538-549
SendNotification(serverName, method) ==
    LET c == connections[serverName]
    IN IF c = 0 THEN proc' = proc
       ELSE proc' = [proc EXCEPT ![c].stdin = Append(@, [method |-> method, id |-> 0])]

(* ---------------------------- connectServer ---------------------------- *)

Frame(name, pc, c, viaAll, tools) ==
    [name |-> name, pc |-> pc, conn |-> c, viaAll |-> viaAll, tools |-> tools]

\* the frame's promise settles: connectAll, if it made the call, resumes
Returned(queue, k, viaAll) ==
    IF viaAll THEN Append(queue, Job("connectAll", k, 0, TRUE, NoTools)) ELSE queue

\* connectServer without the early return of lines 387-389
ConnectServerStartNoCache(name, viaAll, spawned, callNow, jobsNow) ==
    LET k == Len(callNow) + 1
        p == Len(proc) + 1
    IN /\ proc' = Append(proc, NewProcess(name, spawned))
       /\ conn' = Append(conn, NewConnection)
       /\ connections' = [connections EXCEPT ![name] = IF spawned THEN p ELSE 0]
       /\ call' = Append(callNow, Frame(name, "wait", p, viaAll, NoTools))
       /\ jobs' = IF spawned THEN jobsNow
                  ELSE Append(jobsNow, Job("wait", k, 0, FALSE, NoTools))

\* connectServer(name) up to its first await, lines 376-433.  `spawned` is
\* whether spawn started the command; when it did not, the child emits
\* 'error' on the next tick: the handler of line 427 deletes the entry and
\* waitForProcess rejects (line 454).  callNow and jobsNow are the frames and
\* the job queue at the time of the call.
ConnectServerStart(name, viaAll, spawned, callNow, jobsNow) ==
    LET k == Len(callNow) + 1
        c == connections[name]
        p == Len(proc) + 1
    IN IF c # 0 /\ conn[c].ready
       THEN /\ call' = Append(callNow, Frame(name, "done", 0, viaAll, conn[c].tools))
            /\ jobs' = Returned(jobsNow, k, viaAll)
            /\ UNCHANGED <<proc, conn, connections>>
       ELSE /\ proc' = Append(proc, NewProcess(name, spawned))
            /\ conn' = Append(conn, NewConnection)
            /\ connections' = [connections EXCEPT ![name] = IF spawned THEN p ELSE 0]
            /\ call' = Append(callNow, Frame(name, "wait", p, viaAll, NoTools))
            /\ jobs' = IF spawned THEN jobsNow
                       ELSE Append(jobsNow, Job("wait", k, 0, FALSE, NoTools))

\* connectServer throws: its promise rejects
Throw(k) ==
    /\ call' = [call EXCEPT ![k].pc = "failed"]
    /\ jobs' = Returned(Tail(jobs), k, call[k].viaAll)

\* the application calls connectServer(name)
ConnectServer(name, spawned) ==
    /\ jobs = <<>>
    /\ ConnectServerStart(name, FALSE, spawned, call, jobs)
    /\ UNCHANGED <<requestId, req, all>>

\* connectServer resumes after `await this.waitForProcess(proc)` and calls
\* initialize, lines 433-436 and 470-478
ResumeAfterWait ==
    /\ jobs # <<>> /\ Head(jobs).kind = "wait"
    /\ LET k == Head(jobs).call
           name == call[k].name
       IN IF ~Head(jobs).ok
          THEN Throw(k) /\ UNCHANGED <<requestId, req, conn, proc>>
          ELSE IF connections[name] = 0
               THEN /\ call' = [call EXCEPT ![k].pc = "init"]
                    /\ jobs' = Append(Tail(jobs), Job("initialize", k, 0, FALSE, NoTools))
                    /\ UNCHANGED <<requestId, req, conn, proc>>
               ELSE /\ SendRequest(name, "initialize", k)
                    /\ call' = [call EXCEPT ![k].pc = "init"]
                    /\ jobs' = Tail(jobs)
    /\ UNCHANGED <<connections, all>>

\* initialize sending the notification without regard to the outcome of the
\* initialize request
ResumeAfterRequestAlwaysNotify ==
    /\ jobs # <<>> /\ Head(jobs).kind = "request"
    /\ LET k == Head(jobs).call
           r == req[Head(jobs).id]
           ok == r.state = "result"
       IN IF call[k].pc = "init"
          THEN /\ SendNotification(call[k].name, "notifications/initialized")
               /\ jobs' = Append(Tail(jobs), Job("initialize", k, 0, ok, NoTools))
          ELSE /\ proc' = proc
               /\ jobs' = Append(Tail(jobs), Job("listTools", k, 0, ok, r.value))
    /\ UNCHANGED <<requestId, connections, conn, req, call, all>>

\* initialize / listTools resume after `await this.sendRequest(...)`,
\* lines 471-483 and 490-491
ResumeAfterRequest ==
    /\ jobs # <<>> /\ Head(jobs).kind = "request"
    /\ LET k == Head(jobs).call
           r == req[Head(jobs).id]
           ok == r.state = "result"
       IN IF call[k].pc = "init"
          THEN /\ IF ok THEN SendNotification(call[k].name, "notifications/initialized")
                        ELSE proc' = proc
               /\ jobs' = Append(Tail(jobs), Job("initialize", k, 0, ok, NoTools))
          ELSE /\ proc' = proc
               /\ jobs' = Append(Tail(jobs), Job("listTools", k, 0, ok, r.value))
    /\ UNCHANGED <<requestId, connections, conn, req, call, all>>

\* connectServer resumes after `await this.initialize(name)` and calls
\* listTools, lines 436-439 and 489-490
ResumeAfterInitialize ==
    /\ jobs # <<>> /\ Head(jobs).kind = "initialize"
    /\ LET k == Head(jobs).call
           name == call[k].name
       IN IF ~Head(jobs).ok
          THEN Throw(k) /\ UNCHANGED <<requestId, req, conn, proc>>
          ELSE IF connections[name] = 0
               THEN /\ call' = [call EXCEPT ![k].pc = "list"]
                    /\ jobs' = Append(Tail(jobs), Job("listTools", k, 0, FALSE, NoTools))
                    /\ UNCHANGED <<requestId, req, conn, proc>>
               ELSE /\ SendRequest(name, "tools/list", k)
                    /\ call' = [call EXCEPT ![k].pc = "list"]
                    /\ jobs' = Tail(jobs)
    /\ UNCHANGED <<connections, all>>

\* connectServer resumes after `await this.listTools(name)`, lines 439-444
ResumeAfterListTools ==
    /\ jobs # <<>> /\ Head(jobs).kind = "listTools"
    /\ LET k == Head(jobs).call
       IN IF ~Head(jobs).ok
          THEN Throw(k) /\ conn' = conn
          ELSE /\ conn' = [conn EXCEPT ![call[k].conn].tools = Head(jobs).tools,
                                       ![call[k].conn].ready = TRUE]
               /\ call' = [call EXCEPT ![k].pc = "done", ![k].tools = Head(jobs).tools]
               /\ jobs' = Returned(Tail(jobs), k, call[k].viaAll)
    /\ UNCHANGED <<requestId, connections, proc, req, all>>

(* ------------------------------ connectAll ----------------------------- *)

NoResults == [n \in {} |-> NoTools]

\* results.set(name, tools), line 609
SetResult(results, name, tools) ==
    [n \in DOMAIN results \cup {name} |-> IF n = name THEN tools ELSE results[n]]

\* connectAll(), lines 598-608, up to the first await
ConnectAll(spawned) ==
    /\ jobs = <<>>
    /\ all.pc = "idle"
    /\ config # <<>>
    /\ all' = [pc |-> "running", idx |-> 1, results |-> NoResults]
    /\ ConnectServerStart(config[1], TRUE, spawned, call, jobs)
    /\ UNCHANGED <<requestId, req>>

\* connectAll without the try/catch of lines 607-613: a failure ends it
ResumeConnectAllAbort(spawned) ==
    /\ jobs # <<>> /\ Head(jobs).kind = "connectAll"
    /\ LET k == Head(jobs).call
       IN IF call[k].pc = "done" /\ all.idx < Len(config)
          THEN /\ all' = [all EXCEPT !.idx = @ + 1,
                                     !.results = SetResult(@, call[k].name, call[k].tools)]
               /\ ConnectServerStart(config[all.idx + 1], TRUE, spawned, call, Tail(jobs))
          ELSE /\ all' = [all EXCEPT !.pc = "done",
                                     !.results = IF call[k].pc = "done"
                                                 THEN SetResult(@, call[k].name, call[k].tools)
                                                 ELSE @]
               /\ jobs' = Tail(jobs)
               /\ UNCHANGED <<proc, conn, connections, call>>
    /\ UNCHANGED <<requestId, req>>

\* connectAll resumes after `await this.connectServer(name)`: records the
\* tools or catches the error, then goes on with the next name or returns,
\* lines 606-616
ResumeConnectAll(spawned) ==
    /\ jobs # <<>> /\ Head(jobs).kind = "connectAll"
    /\ LET k == Head(jobs).call
           results == IF call[k].pc = "done"
                      THEN SetResult(all.results, call[k].name, call[k].tools)
                      ELSE all.results
       IN IF all.idx < Len(config)
          THEN /\ all' = [all EXCEPT !.idx = @ + 1, !.results = results]
               /\ ConnectServerStart(config[all.idx + 1], TRUE, spawned, call, Tail(jobs))
          ELSE /\ all' = [all EXCEPT !.pc = "done", !.results = results]
               /\ jobs' = Tail(jobs)
               /\ UNCHANGED <<proc, conn, connections, call>>
    /\ UNCHANGED <<requestId, req>>

(* ------------------------------- callTool ------------------------------ *)

\* callTool(serverName, toolName, args), lines 497-503: sendRequest throws
\* when the server has no entry (the returned promise is rejected and
\* nothing else happens)
CallTool(serverName) ==
    /\ jobs = <<>>
    /\ IF connections[serverName] = 0
       THEN UNCHANGED <<requestId, req, conn, proc>>
       ELSE SendRequest(serverName, "tools/call", 0)
    /\ UNCHANGED <<connections, call, jobs, all>>

(* ------------------------------- events -------------------------------- *)

\* the frame waiting in waitForProcess for subprocess p (0: none)
Waiter(p) ==
    IF \E k \in 1..Len(call) : call[k].conn = p /\ call[k].pc = "wait"
    THEN CHOOSE k \in 1..Len(call) : call[k].conn = p /\ call[k].pc = "wait"
    ELSE 0

\* the requests that the continuations of a stdout event will send: one for
\* a wait that ends, one for each initialize request that is answered
IdsNeeded(p, H) ==
    (IF Waiter(p) # 0 THEN 1 ELSE 0)
    + Cardinality({i \in 1..Len(H.jobs) : /\ H.jobs[i].kind = "request"
                                           /\ req[H.jobs[i].id].method = "initialize"
                                           /\ H.req[H.jobs[i].id].state = "result"})

\* subprocess p writes `data` to its stdout: the listener of line 409 runs
\* handleServerData, then the once-listener of waitForProcess (line 460)
\* resolves the wait.  idsLeft: the requests the run may still send.
StdoutData(p, data, idsLeft) ==
    /\ jobs = <<>>
    /\ proc[p].state = "running"
    /\ \E H \in {HandleServerData(proc[p].name, data)} :
          /\ IdsNeeded(p, H) <= idsLeft
          /\ conn' = H.conn
          /\ req' = H.req
          /\ jobs' = IF Waiter(p) # 0
                     THEN Append(H.jobs, Job("wait", Waiter(p), 0, TRUE, NoTools))
                     ELSE H.jobs
    /\ UNCHANGED <<requestId, connections, proc, call, all>>

\* the 5 s timer of waitForProcess fires (line 452)
WaitTimer(k) ==
    /\ jobs = <<>>
    /\ call[k].pc = "wait"
    /\ jobs' = <<Job("wait", k, 0, TRUE, NoTools)>>
    /\ UNCHANGED <<requestId, connections, conn, proc, req, call, all>>

\* the timer without `connection.pendingRequests.delete(id)`
TimeoutKeepEntry(id) ==
    /\ jobs = <<>>
    /\ req[id].timer = "armed"
    /\ conn' = conn
    /\ req' = Settle([req EXCEPT ![id].timer = "fired"], id, "timeout", <<>>)
    /\ jobs' = Awaken(jobs, req, id)
    /\ UNCHANGED <<requestId, connections, proc, call, all>>

\* the timer dropping the connection as well
TimeoutDropsConnection(id) ==
    /\ jobs = <<>>
    /\ req[id].timer = "armed"
    /\ conn' = [conn EXCEPT ![req[id].conn].pendingRequests = @ \ {id}]
    /\ req' = Settle([req EXCEPT ![id].timer = "fired"], id, "timeout", <<>>)
    /\ jobs' = Awaken(jobs, req, id)
    /\ connections' = [n \in Servers |->
                          IF connections[n] = req[id].conn THEN 0 ELSE connections[n]]
    /\ UNCHANGED <<requestId, proc, call, all>>

\* the 60 s timer of request id fires, lines 523-526
Timeout(id) ==
    /\ jobs = <<>>
    /\ req[id].timer = "armed"
    /\ conn' = [conn EXCEPT ![req[id].conn].pendingRequests = @ \ {id}]
    /\ req' = Settle([req EXCEPT ![id].timer = "fired"], id, "timeout", <<>>)
    /\ jobs' = Awaken(jobs, req, id)
    /\ UNCHANGED <<requestId, connections, proc, call, all>>

\* subprocess p exits (by itself, or after the SIGKILL of disconnectServer):
\* the 'exit' handler of lines 422-425
ProcessExit(p) ==
    /\ jobs = <<>>
    /\ proc[p].state \in {"running", "killed"}
    /\ proc' = [proc EXCEPT ![p].state = "exited"]
    /\ connections' = [connections EXCEPT ![proc[p].name] = 0]
    /\ UNCHANGED <<requestId, conn, req, call, jobs, all>>

\* the loop with clearTimeout only, without `pending.reject(...)`
RECURSIVE RejectAllClearOnly(_, _)
RejectAllClearOnly(ids, R) ==
    IF ids = {} THEN R
    ELSE LET id == CHOOSE i \in ids : \A j \in ids : i <= j
         IN RejectAllClearOnly(ids \ {id},
                [req |-> ClearTimeout(R.req, id), jobs |-> R.jobs])

\* lines 626-629: reject every entry of connection.pendingRequests, in
\* insertion order (ids ascending)
RECURSIVE RejectAll(_, _)
RejectAll(ids, R) ==
    IF ids = {} THEN R
    ELSE LET id == CHOOSE i \in ids : \A j \in ids : i <= j
         IN RejectAll(ids \ {id},
                [req |-> Settle(ClearTimeout(R.req, id), id, "disconnected", <<>>),
                 jobs |-> Awaken(R.jobs, R.req, id)])

\* disconnectServer(name), lines 622-636
DisconnectServer(name) ==
    /\ jobs = <<>>
    /\ connections[name] # 0
    /\ LET c == connections[name]
           R == RejectAll(conn[c].pendingRequests, [req |-> req, jobs |-> jobs])
       IN /\ req' = R.req
          /\ jobs' = R.jobs
          /\ proc' = [proc EXCEPT ![c].stdinEnded = TRUE,
                                  ![c].state = IF @ = "running" THEN "killed" ELSE @]
          /\ connections' = [connections EXCEPT ![name] = 0]
    /\ UNCHANGED <<requestId, conn, call, all>>

(* --------------------------- specification ----------------------------- *)

\* the complete lines a subprocess may write: a result or an error for an id
\* sent so far or for the next one, a notification, a line that is no JSON
Lines ==
    LET ids == {i \in 1..(requestId + 1) : i <= Len(Digits)}
    IN {ResultLine(i, <<"x">>) : i \in ids}
       \cup {ErrorLine(i, <<"x">>) : i \in ids}
       \cup {NotificationLine(<<"x">>), GarbageLine}

\* new MCPClient(), with the configuration loaded
InitClient ==
    /\ requestId = 0
    /\ connections = [n \in Servers |-> 0]
    /\ conn = <<>>
    /\ proc = <<>>
    /\ req = <<>>
    /\ call = <<>>
    /\ jobs = <<>>
    /\ all = [pc |-> "idle", idx |-> 0, results |-> NoResults]
    /\ fed = <<>>
    /\ parsed = <<>>

\* what the client's own steps leave alone
history == <<config, fed, parsed, unusedVars>>

\* the continuations of connectServer in the job queue
RunJobs ==
    \/ ResumeAfterWait /\ UNCHANGED history
    \/ ResumeAfterRequest /\ UNCHANGED history
    \/ ResumeAfterInitialize /\ UNCHANGED history
    \/ ResumeAfterListTools /\ UNCHANGED history

\* what the subprocesses and the timers do, while at most idsLeft more
\* requests are sent
Environment(idsLeft) ==
    \/ \E p \in 1..Len(proc), d \in Lines :
         StdoutData(p, d, idsLeft) /\ UNCHANGED history
    \/ \E k \in 1..Len(call) :
         idsLeft > 0 /\ WaitTimer(k) /\ UNCHANGED history
    \/ \E id \in 1..Len(req) : Timeout(id) /\ UNCHANGED history

\* what has been done so far: requests sent, connectServer invocations,
\* disconnections and subprocess exits
Ops ==
    requestId + Len(call)
    + Cardinality({p \in 1..Len(proc) : proc[p].stdinEnded})
    + Cardinality({p \in 1..Len(proc) : proc[p].state = "exited"})

\* one client used directly: connectServer, callTool and disconnectServer
\* on the configured servers in any order, up to maxOps operations
Client(maxOps) ==
    \/ \E n \in Configured, ok \in BOOLEAN :
         Ops < maxOps /\ ConnectServer(n, ok) /\ UNCHANGED history
    \/ \E n \in Configured :
         Ops < maxOps /\ CallTool(n) /\ UNCHANGED history
    \/ \E n \in Configured :
         Ops < maxOps /\ DisconnectServer(n) /\ UNCHANGED history
    \/ \E p \in 1..Len(proc) :
         Ops < maxOps /\ ProcessExit(p) /\ UNCHANGED history
    \/ RunJobs
    \/ Environment(maxOps - Ops)

(* Spec: one configured server, used directly. *)
Init == InitClient /\ config = <<"a">> /\ Unused

Next == Client(MaxOps)

Spec == Init /\ [][Next]_vars

(* SpecLive: the same client with the scheduling the event loop guarantees:
   a queued continuation runs, and an armed timer fires. *)
NextLive == Client(MaxLiveOps)

Fairness ==
    /\ WF_vars(RunJobs)
    /\ \A id \in 1..MaxLiveOps :
         WF_vars(id <= Len(req) /\ Timeout(id) /\ UNCHANGED history)

SpecLive == Init /\ [][NextLive]_vars /\ Fairness

(* SpecAll: connectAll over three configured servers. *)
InitAll == InitClient /\ config = <<"a", "b", "c">> /\ Unused

NextAll ==
    \/ \E ok \in BOOLEAN : ConnectAll(ok) /\ UNCHANGED history
    \/ \E ok \in BOOLEAN : ResumeConnectAll(ok) /\ UNCHANGED history
    \/ \E p \in 1..Len(proc) : ProcessExit(p) /\ UNCHANGED history
    \/ RunJobs
    \/ Environment(2 * Len(config) - requestId)

SpecAll == InitAll /\ [][NextAll]_vars

(* SpecFrame: the stdout stream of one ready connection with a tools/call
   pending, cut into chunks at arbitrary places. *)
Written(method, id) == [method |-> method, id |-> id]

Answered(method, awaiter) ==
    [NewRequest(1, method, awaiter) EXCEPT
        !.state = "result", !.timer = "cleared", !.settles = 1, !.value = <<"x">>]

\* the client after connectServer("a") and one callTool on it
InitFrame ==
    /\ config = <<"a">>
    /\ requestId = 3
    /\ connections = [n \in Servers |-> IF n = "a" THEN 1 ELSE 0]
    /\ conn = <<[ready |-> TRUE, tools |-> <<"x">>, pendingRequests |-> {3},
                 buffer |-> <<>>]>>
    /\ proc = <<[NewProcess("a", TRUE) EXCEPT
                   !.stdin = <<Written("initialize", 1),
                               Written("notifications/initialized", 0),
                               Written("tools/list", 2),
                               Written("tools/call", 3)>>]>>
    /\ req = <<Answered("initialize", 1), Answered("tools/list", 1),
               NewRequest(1, "tools/call", 0)>>
    /\ call = <<Frame("a", "done", 1, FALSE, <<"x">>)>>
    /\ jobs = <<>>
    /\ all = [pc |-> "idle", idx |-> 0, results |-> NoResults]
    /\ fed = <<>>
    /\ parsed = <<>>
    /\ Unused

\* the lines of the streams
FrameLines ==
    {ResultLine(3, v) : v \in Payloads}
    \cup {ErrorLine(3, <<"x">>), NotificationLine(<<"U">>), GarbageLine, BlankLine,
          <<" ">> \o ResultLine(3, <<"x">>)}

\* the streams of at most n lines
RECURSIVE Streams(_)
Streams(n) ==
    IF n = 0 THEN {<<>>}
    ELSE LET S == Streams(n - 1) IN S \cup {s \o l : s \in S, l \in FrameLines}

\* the next chunk of subprocess 1's stream arrives
FrameData ==
    \E s \in Streams(MaxLines) :
      /\ Len(fed) < Len(s)
      /\ SubSeq(s, 1, Len(fed)) = fed
      /\ \E n \in 1..(Len(s) - Len(fed)) :
           \E chunk \in {SubSeq(s, Len(fed) + 1, Len(fed) + n)} :
             /\ StdoutData(1, chunk, 0)
             /\ fed' = fed \o chunk
             /\ parsed' = parsed \o
                  ParsedObjects(CompleteLines(BufferedLines(conn[1].buffer, chunk)))
             /\ UNCHANGED <<config, unusedVars>>

NextFrame == FrameData

SpecFrame == InitFrame /\ [][NextFrame]_vars

(* ------------------------------- claims -------------------------------- *)

\* the ids of the requests written so far to any subprocess
IdsWritten ==
    UNION {{proc[p].stdin[i].id : i \in 1..Len(proc[p].stdin)} : p \in 1..Len(proc)} \ {0}

\* C1: every request written in a step carries an id greater than every id
\* written before it, to whichever subprocess and connection: the ids are
\* strictly increasing in send order and never repeat.
C1_IdsStrictlyIncreasing ==
    [][\A p \in 1..Len(proc') : \A i \in 1..Len(proc'[p].stdin) :
         (/\ p > Len(proc) \/ i > Len(proc[p].stdin)
          /\ proc'[p].stdin[i].id # 0)
         => \A j \in IdsWritten : j < proc'[p].stdin[i].id]_vars

\* C1 witness: requests were written on two connections of the same server,
\* the second made after the first was disconnected
C1_Witness ==
    \E p, q \in 1..Len(proc) :
        /\ p < q /\ proc[p].name = proc[q].name /\ proc[p].stdinEnded
        /\ \E i \in 1..Len(proc[p].stdin) : proc[p].stdin[i].id # 0
        /\ \E i \in 1..Len(proc[q].stdin) : proc[q].stdin[i].id # 0

\* the response lines for request id
ResponsesFor(id) == {ResultLine(id, <<"x">>), ErrorLine(id, <<"x">>)}

\* the requests handleServerData settles or otherwise changes on `data`
Touched(name, data) ==
    UNION {{i \in 1..Len(req) : H.req[i] # req[i]} : H \in {HandleServerData(name, data)}}

\* C2: a request's completion sink is invoked once when it settles and never
\* again, and in every state a response line with id i touches no request
\* but a pending request i of the connection it arrives on.
C2_SettledOnce ==
    /\ \A i \in 1..Len(req) :
         /\ req[i].settles <= 1
         /\ (req[i].settles = 1) <=> (req[i].state # "pending")
    /\ \A n \in Configured : \A i \in 1..Len(Digits) : \A d \in ResponsesFor(i) :
         Touched(n, d) \subseteq
            {j \in {i} : /\ j <= Len(req) /\ req[j].state = "pending"
                         /\ req[j].conn = connections[n]}

\* C2 witness: a request answered by its response, whose connection was
\* disconnected afterwards, next to a request that timed out
C2_Witness ==
    \E i, j \in 1..Len(req) :
        /\ req[i].state = "result" /\ proc[req[i].conn].stdinEnded
        /\ req[j].state = "timeout"

\* C3: a request that timed out is out of its connection's pending set, was
\* settled once, and a response with its id that arrives later changes
\* neither a request nor a pending set and wakes nobody.
C3_TimeoutExclusive ==
    \A i \in 1..Len(req) :
        req[i].state = "timeout" =>
            /\ i \notin conn[req[i].conn].pendingRequests
            /\ req[i].timer = "fired"
            /\ req[i].settles = 1
            /\ \A n \in Configured : \A d \in ResponsesFor(i) :
                 HandleServerData(n, d) = [conn |-> conn, req |-> req, jobs |-> jobs]

\* C3 witness: a request timed out while its connection is still registered
\* and its subprocess still runs, so that a late response can arrive
C3_Witness ==
    \E i \in 1..Len(req) :
        /\ req[i].state = "timeout"
        /\ connections[proc[req[i].conn].name] = req[i].conn
        /\ proc[req[i].conn].state = "running"

\* C4: under fair scheduling of the job queue and the timers, every request
\* that is pending is eventually settled (result, error or timeout), whether
\* the subprocess answers, stays silent, exits or is disconnected.
C4_EventuallySettled ==
    \A i \in 1..MaxLiveOps :
        (i <= Len(req) /\ req[i].state = "pending")
            ~> (i <= Len(req) /\ req[i].state # "pending")

\* C4 witness: a request whose subprocess exited without answering was
\* settled by its timer
C4_Witness ==
    \E i \in 1..Len(req) :
        req[i].state = "timeout" /\ proc[req[i].conn].state = "exited"

\* the stream delivered so far, decoded as a whole and cut at its newlines:
\* what handleServerData is given when every chunk is one whole line
WholeLines(bytes) == CompleteLines(SplitLines(BufferToString(bytes), <<>>))

\* the requests after the whole lines of the stream were handled one by one
SettledByWholeLines(bytes) ==
    ProcessLines(WholeLines(bytes),
                 [pendingRequests |-> {3},
                  req |-> <<Answered("initialize", 1), Answered("tools/list", 1),
                            NewRequest(1, "tools/call", 0)>>,
                  jobs |-> <<>>])

\* C5: however the stream is cut into chunks, the messages parsed and the
\* requests settled (with their outcomes) are those of the same stream
\* delivered as whole lines.
C5_ChunkingIrrelevant ==
    /\ parsed = ParsedObjects(WholeLines(fed))
    /\ req = SettledByWholeLines(fed).req
    /\ conn[1].pendingRequests = SettledByWholeLines(fed).pendingRequests

\* the requests of `method` that frame k awaited and that got a result
Succeeded(k, method) ==
    {i \in 1..Len(req) : /\ req[i].awaiter = k /\ req[i].method = method
                         /\ req[i].state = "result"}

\* the positions in a stdin log of the messages of `method`
Positions(log, method) == {i \in 1..Len(log) : log[i].method = method}

\* C6: per connectServer invocation and per subprocess: tools/list is sent
\* only after the invocation's initialize request got a result; the
\* initialized notification is written only after a successfully answered
\* initialize request on the same stdin, and tools/list only after that
\* notification; a connection is ready, with the tools of the tools/list
\* result cached, only if its invocation got both results.
C6_HandshakeOrder ==
    /\ \A i \in 1..Len(req) :
         (req[i].awaiter # 0 /\ req[i].method = "tools/list") =>
            \E j \in Succeeded(req[i].awaiter, "initialize") : j < i
    /\ \A p \in 1..Len(proc) :
         LET log == proc[p].stdin
         IN /\ \A n \in Positions(log, "notifications/initialized") :
                 \E i \in Positions(log, "initialize") :
                    i < n /\ req[log[i].id].state = "result"
            /\ \A l \in Positions(log, "tools/list") :
                 \E n \in Positions(log, "notifications/initialized") : n < l
    /\ \A c \in 1..Len(conn) :
         (conn[c].ready \/ conn[c].tools # NoTools) =>
            \E k \in 1..Len(call) :
               /\ call[k].conn = c /\ call[k].pc = "done"
               /\ Succeeded(k, "initialize") # {}
               /\ \E j \in Succeeded(k, "tools/list") :
                    conn[c].ready /\ conn[c].tools = req[j].value

\* C6 witness: a registered connection is ready and its subprocess got
\* initialize, the notification and tools/list, in this order
C6_Witness ==
    \E c \in 1..Len(conn) :
        /\ conn[c].ready /\ connections[proc[c].name] = c
        /\ Len(proc[c].stdin) >= 3
        /\ proc[c].stdin[1].method = "initialize"
        /\ proc[c].stdin[2].method = "notifications/initialized"
        /\ proc[c].stdin[3].method = "tools/list"

\* the connectAll frames whose handshake and tool listing succeeded
Discovered ==
    {k \in 1..Len(call) : /\ call[k].viaAll
                          /\ Succeeded(k, "initialize") # {}
                          /\ Succeeded(k, "tools/list") # {}}

\* C7: when connectAll returns, it has called connectServer once for every
\* configured server, in order, whatever failed, and its map holds exactly
\* the servers whose initialize and tools/list requests got results, each
\* with the tools of its tools/list result.
C7_PartialDiscovery ==
    all.pc = "done" =>
        /\ Len(call) = Len(config)
        /\ \A k \in 1..Len(call) : call[k].viaAll /\ call[k].name = config[k]
        /\ DOMAIN all.results = {call[k].name : k \in Discovered}
        /\ \A k \in Discovered : \E j \in Succeeded(k, "tools/list") :
              all.results[call[k].name] = req[j].value

\* C7 witness: connectAll returned over three servers of which exactly one
\* failed to start, with the other two in its map
C7_Witness ==
    /\ all.pc = "done"
    /\ Len(config) = 3
    /\ Cardinality({p \in 1..Len(proc) : proc[p].state = "failed"}) = 1
    /\ Cardinality(DOMAIN all.results) = 2

\* C8 (as claimed): when a connectServer invocation fails, its connection is
\* no longer registered and its subprocess no longer runs.
C8_FailedConnectionTornDown ==
    [][\A k \in 1..Len(call) :
         (call[k].pc # "failed" /\ call'[k].pc = "failed") =>
            /\ connections'[call[k].name] # call[k].conn
            /\ proc'[call[k].conn].state # "running"]_vars

ToolCalls(log) == Cardinality(Positions(log, "tools/call"))

\* C9 (as claimed): a tools/call request is written to a subprocess only
\* when its connection is registered and ready.
C9_CallToolRequiresReady ==
    [][\A p \in 1..Len(proc) :
         ToolCalls(proc'[p].stdin) # ToolCalls(proc[p].stdin) =>
            connections[proc[p].name] = p /\ conn[p].ready]_vars

\* C10: a connectServer call for a server whose registered connection is
\* ready returns at once with the cached tools, and spawns nothing, writes
\* nothing and leaves the connection table, the connections and the
\* requests as they were.
C10_ConnectIdempotent ==
    [][(/\ Len(call') = Len(call) + 1
        /\ connections[call'[Len(call')].name] # 0
        /\ conn[connections[call'[Len(call')].name]].ready)
       => /\ call'[Len(call')].pc = "done"
          /\ call'[Len(call')].tools = conn[connections[call'[Len(call')].name]].tools
          /\ UNCHANGED <<proc, conn, connections, req, requestId>>]_vars

\* C10 witness: a connectServer call returned from the cache
C10_Witness ==
    \E k \in 1..Len(call) :
        call[k].pc = "done" /\ call[k].conn = 0 /\ call[k].tools # NoTools

(***************************************************************************)
(* The MCP bridge (src/tools/mcp-bridge.ts) and the ToolRegistry           *)
(* (src/unnamed/part_009).  Names are character sequences, so that the     *)
(* template literal `mcp_${serverName}_${tool.name}` is a concatenation.   *)
(***************************************************************************)

\* registry entries kept in toolCallLogs (mcp-bridge.ts line 85)
LogLimit == 100
\* tools a server lists, and executions of a run
MaxTools == 2
MaxCalls == 2

\* server names (keys of config.mcpServers) and tool names (MCPTool.name)
ServerNames == {<<"a">>, <<"a", "_", "b">>}
ToolNames == {<<"c">>, <<"b", "_", "c">>}

\* `mcp_${serverName}_${tool.name}`
RegisteredName(serverName, toolName) ==
    <<"m", "c", "p", "_">> \o serverName \o <<"_">> \o toolName

\* createMCPExecutor(serverName, toolName): the closure's captured values
CreateMCPExecutor(serverName, toolName) == [server |-> serverName, tool |-> toolName]

\* register keeping the descriptor a name already has
RegisterKeepFirst(map, name, executor) ==
    [n \in DOMAIN map \cup {name} |-> IF n \in DOMAIN map THEN map[n] ELSE executor]

\* ToolRegistry.register: this.tools.set(name, {definition, executor})
Register(map, name, executor) ==
    [n \in DOMAIN map \cup {name} |-> IF n = name THEN executor ELSE map[n]]

\* the inner loop of registerMCPTools: `for (const tool of tools)`
RECURSIVE RegisterTools(_, _, _)
RegisterTools(map, serverName, toolList) ==
    IF toolList = <<>> THEN map
    ELSE RegisterTools(Register(map, RegisteredName(serverName, Head(toolList)),
                                CreateMCPExecutor(serverName, Head(toolList))),
                       serverName, Tail(toolList))

\* the outer loop: `for (const [serverName, tools] of results)`
RECURSIVE RegisterServers(_, _)
RegisterServers(map, entries) ==
    IF entries = <<>> THEN map
    ELSE RegisterServers(RegisterTools(map, Head(entries).server, Head(entries).tools),
                         Tail(entries))

\* totalTools: one increment per registered tool
RECURSIVE CountTools(_)
CountTools(entries) ==
    IF entries = <<>> THEN 0 ELSE Len(Head(entries).tools) + CountTools(Tail(entries))

\* registerMCPTools(), from the return of connectAll to its own return
RegisterMCPTools ==
    /\ bridge.pc = "idle"
    /\ registry' = RegisterServers(registry, discovered)
    /\ bridge' = [pc |-> "done", totalTools |-> CountTools(discovered)]
    /\ UNCHANGED <<discovered, executed, toolCallLogs>>

\* the splice keeping the first LogLimit entries
PushLogKeepOldest(logs, entry) ==
    LET pushed == Append(logs, entry)
    IN IF Len(pushed) > LogLimit THEN SubSeq(pushed, 1, LogLimit) ELSE pushed

\* toolCallLogs.push(...) and the splice that keeps the last LogLimit entries
PushLog(logs, entry) ==
    LET pushed == Append(logs, entry)
    IN IF Len(pushed) > LogLimit
       THEN SubSeq(pushed, Len(pushed) - LogLimit + 1, Len(pushed))
       ELSE pushed

\* toolRegistry.execute(name, args): throws for an unknown name, else runs
\* the executor, which calls mcpClient.callTool(serverName, toolName, args)
\* and logs the call whether it succeeded or threw
Execute(name, success) ==
    /\ Len(executed) < MaxCalls
    /\ name \in DOMAIN registry
    /\ executed' = Append(executed, name)
    /\ toolCallLogs' = PushLog(toolCallLogs,
                               [server |-> registry[name].server,
                                tool |-> registry[name].tool,
                                success |-> success])
    /\ UNCHANGED <<discovered, registry, bridge>>

\* the tool lists a server may return
RECURSIVE ToolLists(_)
ToolLists(n) ==
    IF n = 0 THEN {<<>>}
    ELSE LET S == ToolLists(n - 1) IN S \cup {Append(l, t) : l \in S, t \in ToolNames}

\* the maps connectAll may return: distinct servers, each with its tools
Discoveries ==
    LET entry == [server : ServerNames, tools : ToolLists(MaxTools)]
    IN {<<>>} \cup {<<e>> : e \in entry}
       \cup {p \in {<<e, f>> : e \in entry, f \in entry} : p[1].server # p[2].server}

(* SpecBridge: registerMCPTools over any discovery, then executions. *)
InitBridge ==
    /\ InitClient /\ config = <<>>
    /\ AgentUnused
    /\ discovered \in Discoveries
    /\ registry = NoRegistry
    /\ bridge = [pc |-> "idle", totalTools |-> 0]
    /\ executed = <<>>
    /\ toolCallLogs = <<>>

NextBridge ==
    \/ RegisterMCPTools /\ UNCHANGED <<vars, agentVars>>
    \/ \E name \in DOMAIN registry, success \in BOOLEAN :
         Execute(name, success) /\ UNCHANGED <<vars, agentVars>>

SpecBridge == InitBridge /\ [][NextBridge]_<<vars, bridgeVars>>

\* the (server, tool) pairs of the discovery
DiscoveredTools ==
    UNION {{<<discovered[i].server, discovered[i].tools[j]>> :
               j \in 1..Len(discovered[i].tools)} : i \in 1..Len(discovered)}

\* C11 (as claimed): after registerMCPTools every discovered tool t of
\* server s is registered under mcp_s_t and under no other name, and every
\* execution of mcp_s_t called tool t on server s.
C11_NamespacingRoundTrip ==
    bridge.pc = "done" =>
        \A d \in DiscoveredTools :
            /\ RegisteredName(d[1], d[2]) \in DOMAIN registry
            /\ \A n \in DOMAIN registry :
                 registry[n] = CreateMCPExecutor(d[1], d[2]) => n = RegisteredName(d[1], d[2])
            /\ \A i \in 1..Len(executed) :
                 executed[i] = RegisteredName(d[1], d[2]) =>
                    toolCallLogs[i].server = d[1] /\ toolCallLogs[i].tool = d[2]

(***************************************************************************)
(* ChatCompressService (src/unnamed/part_005).  A turn's content is a      *)
(* character sequence; its length is what estimateTokens sums.             *)
(***************************************************************************)

\* Message (role, content, tool_calls, tool_call_id); an absent tool_calls
\* and an absent tool_call_id are the empty sequence
Message(role, content, toolCalls, toolCallId) ==
    [role |-> role, content |-> content, tool_calls |-> toolCalls,
     tool_call_id |-> toolCallId]
Turn(role, content) == Message(role, content, <<>>, <<>>)

\* JSON.stringify(msg.tool_calls).length: the brackets, the separating commas
\* and per call its name and argument string; the fixed keys and punctuation
\* of one call count as one character
RECURSIVE StringifyLength(_)
StringifyLength(toolCalls) ==
    IF toolCalls = <<>> THEN 2
    ELSE Len(Head(toolCalls).name) + Len(Head(toolCalls).arguments) + 1
         + (IF Len(toolCalls) > 1 THEN 1 ELSE 0) + StringifyLength(Tail(toolCalls))

\* estimateTokens: Math.ceil(totalChars / 3)
RECURSIVE TotalChars(_)
TotalChars(messages) ==
    IF messages = <<>> THEN 0
    ELSE Len(Head(messages).content)
         + (IF Head(messages).tool_calls # <<>>
            THEN StringifyLength(Head(messages).tool_calls) ELSE 0)
         + TotalChars(Tail(messages))

EstimateTokens(messages) == (TotalChars(messages) + 2) \div 3

NeedsCompressionAlways(messages) == TRUE

NeedsCompression(messages) == EstimateTokens(messages) > compressConfig.maxTokens

\* messages.find(m => m.role === 'system'): the first system turn, if any
IsSystem(m) == m.role = "system"
IsConversation(m) == m.role # "system"
SystemMessage(messages) ==
    IF SelectSeq(messages, IsSystem) = <<>> THEN <<>>
    ELSE <<Head(SelectSeq(messages, IsSystem))>>

ConversationMessages(messages) == SelectSeq(messages, IsConversation)

\* conversationMessages.slice(-k) and .slice(0, -k); -0 is 0 in both
RecentMessages(conversation, k) ==
    IF k = 0 \/ k >= Len(conversation) THEN conversation
    ELSE SubSeq(conversation, Len(conversation) - k + 1, Len(conversation))

OldMessages(conversation, k) ==
    IF k = 0 \/ k >= Len(conversation) THEN <<>>
    ELSE SubSeq(conversation, 1, Len(conversation) - k)

\* `[对话历史摘要]\n${summary}` and the placeholder '无法生成摘要'
SummaryHeader == <<"S", "\n">>
Placeholder == <<"?">>
SummaryTurn(summary) == Turn("system", SummaryHeader \o summary)

\* the result built by lines 80-95
Compressed(messages, summary) ==
    SystemMessage(messages) \o <<SummaryTurn(summary)>>
    \o RecentMessages(ConversationMessages(messages), compressConfig.keepRecentMessages)

\* compress(messages) up to its return or to the await of generateSummary
CompressStart(messages) ==
    IF \/ ~NeedsCompression(messages)
       \/ OldMessages(ConversationMessages(messages),
                      compressConfig.keepRecentMessages) = <<>>
    THEN [pc |-> "done", input |-> messages, output |-> messages,
          requests |-> 0]
    ELSE [pc |-> "summarizing", input |-> messages, output |-> <<>>,
          requests |-> 1]

\* what the backend does with a request: it answers with text, answers
\* without text (content null), or the call throws
Answer(kind, content) == [kind |-> kind, content |-> content]
\* a summary long enough to leave the compacted state above maxTokens
LargeSummary == <<"y", "y", "y", "y", "y">>
SummaryAnswers ==
    {Answer("text", <<"y">>), Answer("text", LargeSummary), Answer("text", <<>>),
     Answer("error", <<"b">>)}

\* compress resumes after `await this.generateSummary(oldMessages)`
CompressEnd(frame, answer) ==
    IF answer.kind = "error"
    THEN [frame EXCEPT !.pc = "thrown"]
    ELSE [frame EXCEPT !.pc = "done",
                       !.output = Compressed(frame.input,
                                             IF answer.content = <<>> THEN Placeholder
                                             ELSE answer.content)]

(***************************************************************************)
(* Agent (src/src/chat.ts): chat and handleToolCalls.  A step runs from    *)
(* one await to the next; the awaited parties are the completion backend   *)
(* (ModelClient.chat) and the executor of a registered tool.               *)
(***************************************************************************)

\* Agent.chat invocations of a run, and tool invocations requested in a run
MaxChats == 2
MaxInvocations == 3
\* the same, of a run under fair scheduling
MaxLiveChats == 2
MaxLiveInvocations == 2
\* config.maxIterations (chat.ts line 45, default 20) is at most this
MaxIterations == 2
\* ChatCompressService.config of the agent (part_005 lines 17 and 19,
\* defaults 24000 and 4), scaled to the turns of the model
MaxTokens == 3
KeepRecentMessages == 2

\* the strings of chat.ts
SystemPrompt == <<"s">>
UserMessage == <<"u">>
MaxIterationsReply == <<"M">>
ErrorReply(message) == <<"E">> \o message
FailurePayload(message) == <<"F">> \o message
ParseErrorMessage == <<"p">>
NotFoundMessage(name) == <<"n">> \o name
ToolTurn(id, content) == Message("tool", content, <<>>, id)

\* JSON.parse(argsStr) returns for an object literal and throws otherwise
Parses(argsStr) ==
    Len(argsStr) >= 2 /\ argsStr[1] = "{" /\ argsStr[Len(argsStr)] = "}"

\* the registry of an agent run: one tool registered by tools/index.js,
\* whose executor resolves with a string or throws
BuiltIn == <<"r">>
AgentRegistry == Register(NoRegistry, BuiltIn, [server |-> <<>>, tool |-> BuiltIn])
ExecutorOutcomes == {Answer("text", <<"o">>), Answer("error", <<"x">>)}

\* the tool invocations a response may request: the registered tool, an
\* unregistered name, an argument string that does not parse
ToolCall(id, name, arguments) == [id |-> id, name |-> name, arguments |-> arguments]
Requests(n, k) ==
    {ToolCall(<<n, k>>, BuiltIn, <<"{", "}">>),
     ToolCall(<<n, k>>, <<"q">>, <<"{", "}">>),
     ToolCall(<<n, k>>, BuiltIn, <<"{">>)}
RECURSIVE ToolRequests(_, _)
ToolRequests(n, len) ==
    IF len = 0 THEN {<<>>}
    ELSE {Append(calls, tc) : calls \in ToolRequests(n, len - 1), tc \in Requests(n, len)}

\* a ModelClient.chat call in flight, with the state it was given
Request(purpose, messages) ==
    [chat |-> Len(returned) + 1, purpose |-> purpose, messages |-> messages,
     answer |-> Answer("pending", <<>>)]
Responded(log, answer) == [log EXCEPT ![Len(log)].answer = answer]

\* the while test letting one more iteration through
ContinueOneMore(a, final, log) ==
    IF a.isRunning /\ a.iterations <= maxIterations
    THEN /\ agent' = [a EXCEPT !.iterations = @ + 1]
         /\ chat' = [pc |-> "thinking", finalResponse |-> final, pending |-> <<>>]
         /\ backend' = Append(log, Request("think", a.messages))
         /\ returned' = returned
    ELSE /\ agent' = a
         /\ chat' = NoFrame
         /\ backend' = log
         /\ returned' = Append(returned,
                               [threw |-> FALSE,
                                value |-> IF a.iterations >= maxIterations
                                          THEN MaxIterationsReply ELSE final])

\* the while test of line 113 and what follows it: the next backend call,
\* or lines 148-152 and the return
Continue(a, final, log) ==
    IF a.isRunning /\ a.iterations < maxIterations
    THEN /\ agent' = [a EXCEPT !.iterations = @ + 1]
         /\ chat' = [pc |-> "thinking", finalResponse |-> final, pending |-> <<>>]
         /\ backend' = Append(log, Request("think", a.messages))
         /\ returned' = returned
    ELSE /\ agent' = a
         /\ chat' = NoFrame
         /\ backend' = log
         /\ returned' = Append(returned,
                               [threw |-> FALSE,
                                value |-> IF a.iterations >= maxIterations
                                          THEN MaxIterationsReply ELSE final])

\* handleToolCalls giving up at the first invocation that fails before it
\* reaches an executor
RECURSIVE HandleToolCallsAbort(_, _)
HandleToolCallsAbort(messages, pending) ==
    IF pending = <<>> THEN [messages |-> messages, pending |-> pending]
    ELSE LET tc == Head(pending)
         IN IF ~Parses(tc.arguments) \/ tc.name \notin DOMAIN registry
            THEN [messages |-> messages, pending |-> <<>>]
            ELSE [messages |-> messages, pending |-> pending]

\* the for loop of handleToolCalls from the head of `pending` on, up to the
\* first invocation that reaches an executor: a parse failure and an unknown
\* name are caught at line 190 and answered by a failure turn
RECURSIVE HandleToolCalls(_, _)
HandleToolCalls(messages, pending) ==
    IF pending = <<>> THEN [messages |-> messages, pending |-> pending]
    ELSE LET tc == Head(pending)
         IN IF ~Parses(tc.arguments)
            THEN HandleToolCalls(
                    Append(messages, ToolTurn(tc.id, FailurePayload(ParseErrorMessage))),
                    Tail(pending))
            ELSE IF tc.name \notin DOMAIN registry
            THEN HandleToolCalls(
                    Append(messages, ToolTurn(tc.id, FailurePayload(NotFoundMessage(tc.name)))),
                    Tail(pending))
            ELSE [messages |-> messages, pending |-> pending]

\* handleToolCalls goes on: the executor of the next invocation starts, or
\* the loop is over and chat goes back to the while test
Acting(a, final, H, events, log) ==
    IF H.pending = <<>>
    THEN /\ Continue([a EXCEPT !.messages = H.messages], final, log)
         /\ trace' = events
    ELSE /\ agent' = [a EXCEPT !.messages = H.messages]
         /\ chat' = [pc |-> "executing", finalResponse |-> final, pending |-> H.pending]
         /\ trace' = Append(events, [event |-> "start", id |-> Head(H.pending).id])
         /\ backend' = log
         /\ returned' = returned

\* chat(userMessage) up to its first await (or to its return): initialize
\* on the first call, the user turn, the compression check
Chat ==
    /\ chat.pc = "idle"
    /\ LET m0 == IF agent.messages = <<>> THEN <<Turn("system", SystemPrompt)>>
                 ELSE agent.messages
           m1 == Append(m0, Turn("user", UserMessage))
           C == IF NeedsCompression(m1) THEN CompressStart(m1) ELSE compress
       IN /\ compress' = C
          /\ IF NeedsCompression(m1) /\ C.pc = "summarizing"
             THEN /\ agent' = [agent EXCEPT !.messages = m1]
                  /\ chat' = [pc |-> "compressing", finalResponse |-> <<>>,
                              pending |-> <<>>]
                  /\ backend' = Append(backend, Request("summary", m1))
                  /\ returned' = returned
             ELSE Continue([messages |-> m1, iterations |-> 0, isRunning |-> TRUE],
                           <<>>, backend)
    /\ UNCHANGED trace

\* chat compressing again while the state it got back needs compression
SummaryRespondsAgain(answer) ==
    /\ chat.pc = "compressing"
    /\ LET E == CompressEnd(compress, answer)
           log == Responded(backend, answer)
       IN IF E.pc = "thrown"
          THEN /\ compress' = E
               /\ chat' = NoFrame
               /\ backend' = log
               /\ returned' = Append(returned, [threw |-> TRUE, value |-> answer.content])
               /\ agent' = agent
          ELSE IF NeedsCompression(E.output) /\ E.requests < 2
          THEN /\ compress' = [pc |-> "summarizing", input |-> E.output, output |-> <<>>,
                               requests |-> E.requests + 1]
               /\ chat' = chat
               /\ backend' = Append(log, Request("summary", E.output))
               /\ returned' = returned
               /\ agent' = [agent EXCEPT !.messages = E.output]
          ELSE /\ compress' = E
               /\ Continue([messages |-> E.output, iterations |-> 0, isRunning |-> TRUE],
                           <<>>, log)
    /\ UNCHANGED trace

\* the backend answers the summarization request, or the call throws:
\* compress returns into line 103, or its rejection leaves chat
SummaryResponds(answer) ==
    /\ chat.pc = "compressing"
    /\ LET E == CompressEnd(compress, answer)
           log == Responded(backend, answer)
       IN /\ compress' = E
          /\ IF E.pc = "thrown"
             THEN /\ chat' = NoFrame
                  /\ backend' = log
                  /\ returned' = Append(returned, [threw |-> TRUE, value |-> answer.content])
                  /\ agent' = agent
             ELSE Continue([messages |-> E.output, iterations |-> 0, isRunning |-> TRUE],
                           <<>>, log)
    /\ UNCHANGED trace

\* the backend answers without tool invocations: lines 133-138
ThinkText(content) ==
    /\ chat.pc = "thinking"
    /\ Continue([agent EXCEPT !.messages = Append(@, Turn("assistant", content)),
                              !.isRunning = FALSE],
                content, Responded(backend, Answer("text", content)))
    /\ UNCHANGED <<compress, trace>>

\* the catch block recording the failure as a turn
ThinkFailsAppendsTurn(message) ==
    /\ chat.pc = "thinking"
    /\ Continue([agent EXCEPT !.messages = Append(@, Turn("assistant", ErrorReply(message))),
                              !.isRunning = FALSE],
                ErrorReply(message), Responded(backend, Answer("error", message)))
    /\ UNCHANGED <<compress, trace>>

\* the backend call throws: lines 140-145
ThinkFails(message) ==
    /\ chat.pc = "thinking"
    /\ Continue([agent EXCEPT !.isRunning = FALSE],
                ErrorReply(message), Responded(backend, Answer("error", message)))
    /\ UNCHANGED <<compress, trace>>

\* the sequence in reverse
RECURSIVE Reverse(_)
Reverse(seq) == IF seq = <<>> THEN <<>> ELSE Append(Reverse(Tail(seq)), Head(seq))

\* handleToolCalls running the invocations last to first
ThinkToolsReversed(calls) ==
    /\ chat.pc = "thinking"
    /\ LET m == Append(agent.messages, Message("assistant", <<>>, calls, <<>>))
       IN Acting(agent, chat.finalResponse, HandleToolCalls(m, Reverse(calls)), trace,
                 Responded(backend, Answer("tools", calls)))
    /\ UNCHANGED compress

\* the backend requests tool invocations: line 130 and handleToolCalls up to
\* its first executor
ThinkTools(calls) ==
    /\ chat.pc = "thinking"
    /\ LET m == Append(agent.messages, Message("assistant", <<>>, calls, <<>>))
       IN Acting(agent, chat.finalResponse, HandleToolCalls(m, calls), trace,
                 Responded(backend, Answer("tools", calls)))
    /\ UNCHANGED compress

\* handleToolCalls writing the tool turn over the last turn of the state
ExecutorSettlesOverLastTurn(outcome) ==
    /\ chat.pc = "executing"
    /\ LET tc == Head(chat.pending)
           content == IF outcome.kind = "error" THEN FailurePayload(outcome.content)
                      ELSE outcome.content
           m == Append(SubSeq(agent.messages, 1, Len(agent.messages) - 1),
                       ToolTurn(tc.id, content))
       IN Acting(agent, chat.finalResponse, HandleToolCalls(m, Tail(chat.pending)),
                 Append(trace, [event |-> outcome.kind, id |-> tc.id]), backend)
    /\ UNCHANGED compress

\* the executor of the invocation at the head of `pending` resolves or
\* throws: its tool turn is appended (lines 182-202) and the loop goes on
ExecutorSettles(outcome) ==
    /\ chat.pc = "executing"
    /\ LET tc == Head(chat.pending)
           content == IF outcome.kind = "error" THEN FailurePayload(outcome.content)
                      ELSE outcome.content
           m == Append(agent.messages, ToolTurn(tc.id, content))
       IN Acting(agent, chat.finalResponse, HandleToolCalls(m, Tail(chat.pending)),
                 Append(trace, [event |-> outcome.kind, id |-> tc.id]), backend)
    /\ UNCHANGED compress

(* SpecAgent: one agent, chat called again and again. *)
InitAgent ==
    /\ InitClient /\ config = <<>>
    /\ discovered = <<>>
    /\ registry = AgentRegistry
    /\ bridge = [pc |-> "idle", totalTools |-> 0]
    /\ executed = <<>>
    /\ toolCallLogs = <<>>
    /\ maxIterations \in 0..MaxIterations
    /\ compressConfig = [maxTokens |-> MaxTokens, keepRecentMessages |-> KeepRecentMessages]
    /\ InitAgentState

agentFrame == <<vars, bridgeVars, maxIterations, compressConfig>>

\* the tool invocations requested so far
RECURSIVE Invocations(_)
Invocations(log) ==
    IF log = <<>> THEN 0
    ELSE (IF Head(log).answer.kind = "tools" THEN Len(Head(log).answer.content) ELSE 0)
         + Invocations(Tail(log))

\* the backend and the executors answer, requesting nothing further
Answers ==
    \/ \E answer \in SummaryAnswers : SummaryResponds(answer) /\ UNCHANGED agentFrame
    \/ ThinkText(<<"t">>) /\ UNCHANGED agentFrame
    \/ ThinkFails(<<"b">>) /\ UNCHANGED agentFrame
    \/ \E outcome \in ExecutorOutcomes : ExecutorSettles(outcome) /\ UNCHANGED agentFrame

\* one agent: chat called up to maxChats times, each call after the return
\* of the one before, with at most maxInvocations tool invocations requested
AgentSteps(maxChats, maxInvocations) ==
    \/ Len(returned) < maxChats /\ Chat /\ UNCHANGED agentFrame
    \/ \E n \in 1..(maxInvocations - Invocations(backend)) :
       \E calls \in ToolRequests(Len(backend), n) :
         ThinkTools(calls) /\ UNCHANGED agentFrame
    \/ Answers

NextAgent == AgentSteps(MaxChats, MaxInvocations)

allVars == <<vars, bridgeVars, agentVars>>

SpecAgent == InitAgent /\ [][NextAgent]_allVars

(* SpecAgentLive: the same agent with a backend and executors that answer. *)
NextAgentLive == AgentSteps(MaxLiveChats, MaxLiveInvocations)

SpecAgentLive == InitAgent /\ [][NextAgentLive]_allVars /\ WF_allVars(Answers)

\* the Thinking-step backend calls of the c-th chat invocation
Thinks(c) ==
    {i \in 1..Len(backend) : backend[i].chat = c /\ backend[i].purpose = "think"}

\* C12: a chat invocation never makes more than maxIterations backend calls
\* and, once started, returns; when every response of a returned invocation
\* requested a tool call, it made exactly maxIterations backend calls and
\* returned the max-iterations message.
C12_IterationBound ==
    /\ [](\A c \in 1..(Len(returned) + 1) :
            /\ Cardinality(Thinks(c)) <= maxIterations
            /\ (/\ c <= Len(returned)
                /\ ~returned[c].threw
                /\ \A i \in Thinks(c) : backend[i].answer.kind = "tools")
               => /\ Cardinality(Thinks(c)) = maxIterations
                  /\ returned[c].value = MaxIterationsReply)
    /\ \A c \in 1..MaxLiveChats :
         (Len(returned) = c - 1 /\ chat.pc # "idle") ~> (Len(returned) = c)

\* C12 witness: a chat invocation with maxIterations = MaxIterations returned
\* the max-iterations message after that many responses, all requesting tools
C12_Witness ==
    /\ maxIterations = MaxIterations
    /\ Len(returned) >= 1
    /\ returned[1].value = MaxIterationsReply
    /\ Cardinality(Thinks(1)) = MaxIterations
    /\ \A i \in Thinks(1) : backend[i].answer.kind = "tools"

\* C13 (as claimed): a response without tool invocations is the last backend
\* call of its chat invocation, its text is what the invocation returns, and
\* the state at return is the submitted state plus one assistant turn with
\* that text.
C13_PlainAnswerIsFinal ==
    \A i \in 1..Len(backend) :
        (backend[i].purpose = "think" /\ backend[i].answer.kind = "text") =>
            LET c == backend[i].chat
            IN /\ \A j \in Thinks(c) : j <= i
               /\ c <= Len(returned)
               /\ ~returned[c].threw
               /\ returned[c].value = backend[i].answer.content
               /\ (i = Len(backend) /\ c = Len(returned) /\ chat.pc = "idle") =>
                     agent.messages =
                        Append(backend[i].messages,
                               Turn("assistant", backend[i].answer.content))

\* the assistant turns that carry tool invocations, and how many of the
\* invocations of the turn at p have been answered
Requesting == {p \in 1..Len(agent.messages) : agent.messages[p].tool_calls # <<>>}
AnsweredOf(p) ==
    IF chat.pc = "executing" /\ \A q \in Requesting : q <= p
    THEN Len(agent.messages[p].tool_calls) - Len(chat.pending)
    ELSE Len(agent.messages[p].tool_calls)

\* the tool turns that follow the assistant turn at p are one per answered
\* invocation, in the order of the requests, each with the id of its request
OneTurnEach(p) ==
    LET calls == agent.messages[p].tool_calls
        n == AnsweredOf(p)
    IN /\ p + n <= Len(agent.messages)
       /\ \A k \in 1..n :
            /\ agent.messages[p + k].role = "tool"
            /\ agent.messages[p + k].tool_call_id = calls[k].id
       /\ \/ p + n = Len(agent.messages)
          \/ agent.messages[p + n + 1].role # "tool"
       /\ (chat.pc = "executing" /\ n < Len(calls)) => p + n = Len(agent.messages)

Before(id1, id2) == id1[1] < id2[1] \/ (id1[1] = id2[1] /\ id1[2] < id2[2])

\* C14: the tool turns after an assistant turn with n requests are exactly
\* one per request, in request order and with the request's id; an executor
\* starts only when the one started before it has ended, and executors
\* start in request order.
C14_SequentialInOrder ==
    /\ \A p \in Requesting : OneTurnEach(p)
    /\ \A i \in 1..Len(trace) :
         trace[i].event = "start" =>
            /\ IF i = Len(trace)
               THEN chat.pc = "executing" /\ Head(chat.pending).id = trace[i].id
               ELSE trace[i + 1].event # "start" /\ trace[i + 1].id = trace[i].id
            /\ \A j \in 1..(i - 1) :
                 trace[j].event = "start" => Before(trace[j].id, trace[i].id)

\* C14 witness: one response requested two invocations of the registered
\* tool; both ran, one after the other, and their turns follow in order
C14_Witness ==
    \E p \in Requesting :
        /\ Len(agent.messages[p].tool_calls) = 2
        /\ Len(agent.messages) >= p + 2
        /\ agent.messages[p + 2].role = "tool"
        /\ Len(trace) = 4
        /\ trace[3].event = "start"
        /\ trace[3].id = agent.messages[p].tool_calls[2].id

\* what the tool turn of invocation tc must hold: a failure payload when
\* the arguments do not parse, the name is not registered or the executor
\* threw, the executor's result otherwise
ExpectedContent(tc) ==
    IF ~Parses(tc.arguments) THEN {FailurePayload(ParseErrorMessage)}
    ELSE IF tc.name \notin DOMAIN registry THEN {FailurePayload(NotFoundMessage(tc.name))}
    ELSE {IF trace[i].event = "error" THEN FailurePayload(<<"x">>) ELSE <<"o">> :
             i \in {j \in 1..Len(trace) : trace[j].id = tc.id /\ trace[j].event # "start"}}

\* C15: every invocation handled so far, whether it failed to parse, named
\* no registered tool, or had its executor throw, has exactly one tool turn,
\* at its place, carrying the failure payload (or the result); and chat
\* throws for no other reason than a failed summarization request.
C15_CapabilityErrorsContained ==
    /\ \A p \in Requesting :
         /\ OneTurnEach(p)
         /\ \A k \in 1..AnsweredOf(p) :
              agent.messages[p + k].content
                 \in ExpectedContent(agent.messages[p].tool_calls[k])
    /\ \A c \in 1..Len(returned) :
         returned[c].threw =>
            \E i \in 1..Len(backend) :
               /\ backend[i].chat = c /\ backend[i].purpose = "summary"
               /\ backend[i].answer.kind = "error"

\* C15 witness: a chat invocation returned normally after a response whose
\* three invocations failed in the three ways, each answered by its turn
C15_Witness ==
    /\ chat.pc = "idle" /\ Len(returned) = 1 /\ ~returned[1].threw
    /\ \E p \in Requesting :
         LET calls == agent.messages[p].tool_calls
         IN /\ Len(calls) = 3
            /\ ~Parses(calls[1].arguments)
            /\ Parses(calls[2].arguments) /\ calls[2].name \notin DOMAIN registry
            /\ \E i \in 1..Len(trace) : trace[i].id = calls[3].id /\ trace[i].event = "error"
            /\ agent.messages[p + 3].content = FailurePayload(<<"x">>)

\* C16 (as claimed): a failed Thinking-step backend call is the last backend
\* call of its chat invocation, which returns normally with the error
\* message of that failure.
C16_BackendFailureEndsChat ==
    \A i \in 1..Len(backend) :
        (backend[i].purpose = "think" /\ backend[i].answer.kind = "error") =>
            LET c == backend[i].chat
            IN /\ \A j \in Thinks(c) : j <= i
               /\ c <= Len(returned)
               /\ ~returned[c].threw
               /\ returned[c].value = ErrorReply(backend[i].answer.content)

\* C17: the step in which a Thinking-step backend call fails changes no
\* turn: the state is the one submitted to that call, and chat returns
\* normally in that step.
C17_BackendFailureKeepsState ==
    [][(/\ chat.pc = "thinking"
        /\ backend'[Len(backend)].answer.kind = "error")
       => /\ agent'.messages = agent.messages
          /\ agent.messages = backend[Len(backend)].messages
          /\ Len(returned') = Len(returned) + 1
          /\ ~returned'[Len(returned')].threw]_allVars

\* C17 witness: after a failed backend call the next chat invocation went on
\* from the kept state (the submitted turns plus its user turn) and got an
\* answer
C17_Witness ==
    \E i \in 1..Len(backend) :
        /\ backend[i].purpose = "think" /\ backend[i].answer.kind = "error"
        /\ Len(backend) > i
        /\ backend[i + 1].messages = Append(backend[i].messages, Turn("user", UserMessage))
        /\ backend[i + 1].answer.kind = "text"

(* SpecCompress: compress called once on any conversation, under any
   configuration. *)

\* turns of a conversation handed to compress
MaxTurns == 4

InputTurns ==
    {Turn("system", SystemPrompt), SummaryTurn(<<"y">>),
     Turn("user", UserMessage), Turn("assistant", <<"t", "t">>)}

RECURSIVE Conversations(_)
Conversations(n) ==
    IF n = 0 THEN {<<>>}
    ELSE LET S == Conversations(n - 1)
         IN S \cup {Append(c, t) : c \in S, t \in InputTurns}

InitCompress ==
    /\ InitClient /\ config = <<>>
    /\ BridgeUnused
    /\ maxIterations = 0
    /\ compressConfig \in [maxTokens : 0..MaxTokens,
                           keepRecentMessages : 0..KeepRecentMessages]
    /\ InitAgentState

\* compress(messages) is called
Compress(messages) ==
    /\ compress.pc = "idle"
    /\ compress' = CompressStart(messages)
    /\ backend' = IF compress'.pc = "summarizing"
                  THEN Append(backend, Request("summary", messages)) ELSE backend

\* the backend answers the summarization request, or the call throws
SummaryArrives(answer) ==
    /\ compress.pc = "summarizing"
    /\ compress' = CompressEnd(compress, answer)
    /\ backend' = Responded(backend, answer)

compressFrame ==
    <<vars, bridgeVars, maxIterations, compressConfig, agent, chat, trace, returned>>

NextCompress ==
    \/ \E messages \in Conversations(MaxTurns) :
         Compress(messages) /\ UNCHANGED compressFrame
    \/ \E answer \in SummaryAnswers :
         SummaryArrives(answer) /\ UNCHANGED compressFrame

SpecCompress == InitCompress /\ [][NextCompress]_allVars

\* C18: when the token estimate of the input does not exceed maxTokens, or
\* the input has at most keepRecentMessages non-system turns, compress
\* returns its input and requests no summary.
C18_UnchangedBelowThreshold ==
    (/\ compress.pc # "idle"
     /\ \/ EstimateTokens(compress.input) <= compressConfig.maxTokens
        \/ Cardinality({i \in 1..Len(compress.input) : compress.input[i].role # "system"})
              <= compressConfig.keepRecentMessages)
    => /\ compress.pc = "done"
       /\ compress.output = compress.input
       /\ compress.requests = 0
       /\ backend = <<>>

\* C18 witness: an input above the threshold with no turn to fold came back
\* unchanged
C18_Witness ==
    /\ compress.pc = "done"
    /\ compress.input # <<>>
    /\ EstimateTokens(compress.input) > compressConfig.maxTokens
    /\ compressConfig.keepRecentMessages >= 1
    /\ compress.output = compress.input

\* the last k elements
LastTurns(seq, k) ==
    IF k >= Len(seq) THEN seq ELSE SubSeq(seq, Len(seq) - k + 1, Len(seq))

\* C19 (as claimed): a folded state is every system turn of the input, then
\* one summary turn, then the keepRecentMessages most recent non-system
\* turns in their order.
C19_FoldedShape ==
    (compress.pc = "done" /\ compress.requests > 0) =>
        \E summary \in {<<"y">>, LargeSummary, Placeholder} :
            compress.output =
                SelectSeq(compress.input, IsSystem)
                \o <<SummaryTurn(summary)>>
                \o LastTurns(SelectSeq(compress.input, IsConversation),
                             compressConfig.keepRecentMessages)

\* C20 (as claimed): a summarization request that fails or brings no text
\* leaves compress and chat returning normally, with a placeholder summary
\* turn in the state the loop goes on with.
C20_SummaryFailureDegrades ==
    /\ compress.pc # "thrown"
    /\ \A i \in 1..Len(backend) :
         (/\ backend[i].purpose = "summary"
          /\ \/ backend[i].answer.kind = "error"
             \/ backend[i].answer = Answer("text", <<>>))
         => /\ backend[i].chat <= Len(returned) => ~returned[backend[i].chat].threw
            /\ i < Len(backend) =>
                 /\ backend[i + 1].chat = backend[i].chat
                 /\ \E p \in 1..Len(backend[i + 1].messages) :
                      backend[i + 1].messages[p] = SummaryTurn(Placeholder)

\* the summarization requests of the c-th chat invocation
Summaries(c) ==
    {i \in 1..Len(backend) : backend[i].chat = c /\ backend[i].purpose = "summary"}

\* C21: a chat invocation issues at most one summarization request, and a
\* compress invocation at most one, also when the state that comes back
\* still exceeds maxTokens.
C21_OneSummaryPerChat ==
    /\ compress.requests <= 1
    /\ \A c \in 1..(Len(returned) + 1) : Cardinality(Summaries(c)) <= 1

\* C21 witness: a chat went on to its backend call with a compacted state
\* that still exceeds maxTokens
C21_Witness ==
    \E i \in 1..(Len(backend) - 1) :
        /\ backend[i].purpose = "summary"
        /\ backend[i].answer = Answer("text", LargeSummary)
        /\ backend[i + 1].chat = backend[i].chat
        /\ backend[i + 1].purpose = "think"
        /\ NeedsCompression(backend[i + 1].messages)
        /\ backend[i + 1].chat <= Len(returned)

(***************************************************************************)
(* MCPClient with several connections: disconnectAll, and requests pending *)
(* on more than one connection.                                            *)
(***************************************************************************)

\* operations of a run on the connected servers
MaxMultiOps == 3

\* the part of the client that disconnectServer changes
Table(r, j, p, t) == [req |-> r, jobs |-> j, proc |-> p, connections |-> t]

\* disconnectServer(name), lines 622-636, as a function of that part
Disconnect(S, name) ==
    LET c == S.connections[name]
    IN IF c = 0 THEN S
       ELSE LET R == RejectAll(conn[c].pendingRequests, [req |-> S.req, jobs |-> S.jobs])
            IN Table(R.req, R.jobs,
                     [S.proc EXCEPT ![c].stdinEnded = TRUE,
                                    ![c].state = IF @ = "running" THEN "killed" ELSE @],
                     [S.connections EXCEPT ![name] = 0])

\* the loop ending after its first connection
RECURSIVE DisconnectEachFirstOnly(_, _)
DisconnectEachFirstOnly(S, names) ==
    IF names = <<>> THEN S ELSE Disconnect(S, Head(names))

\* `for (const [name] of this.connections) this.disconnectServer(name)`
RECURSIVE DisconnectEach(_, _)
DisconnectEach(S, names) ==
    IF names = <<>> THEN S ELSE DisconnectEach(Disconnect(S, Head(names)), Tail(names))

\* the keys of this.connections in the orders a Map may hold them (a Map
\* iterates in insertion order, which `connections` does not record)
Connected == {n \in Servers : connections[n] # 0}
TableOrders ==
    {o \in [1..Cardinality(Connected) -> Connected] :
        \A i, j \in DOMAIN o : i # j => o[i] # o[j]}

\* disconnectAll(), lines 641-645
DisconnectAll ==
    /\ jobs = <<>>
    /\ Connected # {}
    /\ \E order \in TableOrders :
         \E S \in {DisconnectEach(Table(req, jobs, proc, connections), order)} :
            /\ req' = S.req
            /\ jobs' = S.jobs
            /\ proc' = S.proc
            /\ connections' = S.connections
    /\ UNCHANGED <<requestId, conn, call, all>>

(* SpecMulti: servers "a" and "b" connected by connectAll, then used. *)
ReadyConnection == [NewConnection EXCEPT !.ready = TRUE, !.tools = <<"x">>]

Handshake(name, first) ==
    [NewProcess(name, TRUE) EXCEPT
        !.stdin = <<Written("initialize", first),
                    Written("notifications/initialized", 0),
                    Written("tools/list", first + 1)>>]

\* the client after connectAll() returned with both servers ready
InitMulti ==
    /\ config = <<"a", "b">>
    /\ requestId = 4
    /\ connections = [n \in Servers |-> IF n = "a" THEN 1 ELSE IF n = "b" THEN 2 ELSE 0]
    /\ conn = <<ReadyConnection, ReadyConnection>>
    /\ proc = <<Handshake("a", 1), Handshake("b", 3)>>
    /\ req = <<Answered("initialize", 1), Answered("tools/list", 1),
               [Answered("initialize", 2) EXCEPT !.conn = 2],
               [Answered("tools/list", 2) EXCEPT !.conn = 2]>>
    /\ call = <<Frame("a", "done", 1, TRUE, <<"x">>), Frame("b", "done", 2, TRUE, <<"x">>)>>
    /\ jobs = <<>>
    /\ all = [pc |-> "done", idx |-> 2,
              results |-> SetResult(SetResult(NoResults, "a", <<"x">>), "b", <<"x">>)]
    /\ fed = <<>>
    /\ parsed = <<>>
    /\ Unused

\* the operations of the run so far
MultiOps == Ops - 3 * Len(config)

NextMulti ==
    \/ \E n \in Configured :
         MultiOps < MaxMultiOps /\ CallTool(n) /\ UNCHANGED history
    \/ \E n \in Configured :
         MultiOps < MaxMultiOps /\ DisconnectServer(n) /\ UNCHANGED history
    \/ MultiOps < MaxMultiOps /\ DisconnectAll /\ UNCHANGED history
    \/ \E p \in 1..Len(proc) :
         MultiOps < MaxMultiOps /\ ProcessExit(p) /\ UNCHANGED history
    \/ \E p \in 1..Len(proc), d \in Lines :
         StdoutData(p, d, 0) /\ UNCHANGED history
    \/ \E id \in 1..Len(req) : Timeout(id) /\ UNCHANGED history

SpecMulti == InitMulti /\ [][NextMulti]_vars

\* connection c is disconnected in this step
Disconnecting(c) == ~proc[c].stdinEnded /\ proc'[c].stdinEnded

\* the requests pending on the connections of the table
PendingOn(names) == UNION {conn[connections[n]].pendingRequests : n \in names}

\* C22: a step that disconnects connections rejects each of their pending
\* requests with the disconnected error and clears its timer, ends the
\* subprocess's stdin, kills the subprocess and removes the table entry, and
\* changes no other request, connection or subprocess; in every state
\* disconnectAll does so for every connection and leaves the table empty.
C22_DisconnectRejectsPending ==
    /\ [](\A order \in TableOrders :
            \E S \in {DisconnectEach(Table(req, jobs, proc, connections), order)} :
               /\ \A n \in Servers : S.connections[n] = 0
               /\ \A n \in Connected :
                    /\ S.proc[connections[n]].stdinEnded
                    /\ S.proc[connections[n]].state = "killed"
               /\ \A id \in 1..Len(req) :
                    IF id \in PendingOn(Connected)
                    THEN /\ S.req[id].state = "disconnected"
                         /\ S.req[id].timer = "cleared"
                         /\ S.req[id].settles = 1
                    ELSE S.req[id] = req[id])
    /\ [][(\E c \in 1..Len(proc) : Disconnecting(c)) =>
            LET gone == {n \in Connected : Disconnecting(connections[n])}
            IN /\ \A c \in 1..Len(proc) :
                    IF Disconnecting(c)
                    THEN /\ connections[proc[c].name] = c
                         /\ proc'[c].state = "killed"
                    ELSE proc'[c] = proc[c]
               /\ \A n \in Servers :
                    connections'[n] = IF n \in gone THEN 0 ELSE connections[n]
               /\ \A id \in 1..Len(req) :
                    IF id \in PendingOn(gone)
                    THEN /\ req'[id].state = "disconnected"
                         /\ req'[id].timer = "cleared"
                         /\ req'[id].settles = 1
                    ELSE req'[id] = req[id]
               /\ Len(req') = Len(req)
               /\ conn' = conn]_vars

\* C22 witness: connection "a" was disconnected and its pending request
\* rejected, while the request pending on "b" is still pending
C22_Witness ==
    /\ proc[1].stdinEnded
    /\ connections["b"] = 2
    /\ \E i, j \in 1..Len(req) :
         /\ req[i].conn = 1 /\ req[i].state = "disconnected"
         /\ req[j].conn = 2 /\ req[j].state = "pending"
         /\ j \in conn[2].pendingRequests

\* the 'notification' events of lines 585-588: one for every parsed object
\* whose id is undefined
RECURSIVE Emitted(_, _)
Emitted(serverName, lines) ==
    IF lines = <<>> THEN <<>>
    ELSE LET trimmed == Trim(Head(lines))
             response == JsonParse(trimmed)
         IN (IF trimmed = <<>> \/ ~response.ok \/ response.id # 0 THEN <<>>
             ELSE <<[server |-> serverName, data |-> response]>>)
            \o Emitted(serverName, Tail(lines))

\* what handleServerData(serverName, data) emits to the observers
Notifications(serverName, data) ==
    LET c == connections[serverName]
    IN IF c = 0 THEN <<>>
       ELSE Emitted(serverName, CompleteLines(BufferedLines(conn[c].buffer, data)))

\* the object handleServerData parses from the one-line chunk `data`
ObjectsOf(serverName, data) ==
    ParsedObjects(CompleteLines(BufferedLines(conn[connections[serverName]].buffer, data)))

\* C23 (as claimed): on a connection of the table, an object whose id is in
\* the connection's pending set settles that request (rejecting it when it
\* carries an error) and removes the entry, emitting nothing; every other
\* object, with no id or with an id that is not pending there, is emitted as
\* a notification and settles nothing.
C23_MessageRouting ==
    \A n \in Connected : \A d \in Lines :
        \A o \in {ObjectsOf(n, d)[i] : i \in 1..Len(ObjectsOf(n, d))} :
            \E H \in {HandleServerData(n, d)} :
                IF o.id # 0 /\ o.id \in conn[connections[n]].pendingRequests
                THEN /\ H.req[o.id].state = IF o.error THEN "error" ELSE "result"
                     /\ H.req[o.id].value = o.value
                     /\ o.id \notin H.conn[connections[n]].pendingRequests
                     /\ Notifications(n, d) = <<>>
                ELSE /\ Notifications(n, d) = <<[server |-> n, data |-> o]>>
                     /\ H.req = req

\* request id timed out in this step
TimingOut(id) == req[id].state = "pending" /\ req'[id].state = "timeout"

\* the connections of the table that had a request time out
TimedOutOn(c) == \E i \in 1..Len(req) : req[i].state = "timeout" /\ req[i].conn = c

\* C24: the step in which a request times out removes its pending entry and
\* settles it, and changes nothing else: the table, the connection's ready
\* flag and tools, the other pending entries, the other requests and the
\* subprocesses stay as they were.  On a connection of the table that had a
\* timeout, a request sent later is written and pending, and the response to
\* any pending request resolves it.
C24_TimeoutCallScoped ==
    /\ [][\A id \in 1..Len(req) : TimingOut(id) =>
            /\ connections' = connections
            /\ proc' = proc
            /\ conn' = [conn EXCEPT ![req[id].conn].pendingRequests = @ \ {id}]
            /\ \A j \in 1..Len(req) : j # id => req'[j] = req[j]
            /\ Len(req') = Len(req)]_vars
    /\ [][\A n \in Connected :
            (TimedOutOn(connections[n]) /\ requestId' = requestId + 1
             /\ req'[requestId'].conn = connections[n]) =>
                /\ req'[requestId'].state = "pending"
                /\ requestId' \in conn'[connections[n]].pendingRequests
                /\ proc'[connections[n]].stdin
                     = Append(proc[connections[n]].stdin, Written("tools/call", requestId'))]_vars
    /\ [](\A n \in Connected : TimedOutOn(connections[n]) =>
            \A j \in conn[connections[n]].pendingRequests :
                /\ req[j].state = "pending"
                /\ HandleServerData(n, ResultLine(j, <<"x">>)).req[j].state = "result")

\* C24 witness: on a connection that is still in the table and ready, one
\* request timed out, a later one was answered and another is still pending
C24_Witness ==
    \E n \in Connected : \E i, j, k \in 1..Len(req) :
        /\ conn[connections[n]].ready
        /\ req[i].conn = connections[n] /\ req[i].state = "timeout"
        /\ req[j].conn = connections[n] /\ req[j].state = "result" /\ j > i
        /\ req[k].conn = connections[n] /\ req[k].state = "pending"

(***************************************************************************)
(* ToolRegistry (src/unnamed/part_009) on its own.                         *)
(***************************************************************************)

\* register, unregister and execute calls of a run
MaxRegistryOps == 4

RegistryNames == {BuiltIn, <<"q">>}
Executors == {[server |-> <<>>, tool |-> BuiltIn], CreateMCPExecutor(<<"a">>, <<"c">>)}

\* ToolRegistry.unregister: this.tools.delete(name)
Unregister(map, name) == [n \in DOMAIN map \ {name} |-> map[n]]

\* an entry of the run's record
RegistryEvent(event, name, executor, outcome, result) ==
    [event |-> event, name |-> name, executor |-> executor, outcome |-> outcome,
     result |-> result]

\* toolRegistry.register(name, ..., executor)
RegistryRegister(name, executor) ==
    /\ registry' = Register(registry, name, executor)
    /\ trace' = Append(trace, RegistryEvent("register", name, <<executor>>, <<>>, <<>>))

\* toolRegistry.unregister(name)
RegistryUnregister(name) ==
    /\ registry' = Unregister(registry, name)
    /\ trace' = Append(trace, RegistryEvent("unregister", name, <<>>, <<>>, <<>>))

\* toolRegistry.execute(name, args), lines 61-67: throws when the name has
\* no entry, else returns the promise of the entry's executor, which settles
\* as `outcome`.  The record keeps the executor that ran, what it produced
\* and what execute gave back.
RegistryExecute(name, outcome) ==
    /\ registry' = registry
    /\ trace' = Append(trace,
         IF name \notin DOMAIN registry
         THEN RegistryEvent("execute", name, <<>>, <<>>,
                            <<Answer("error", NotFoundMessage(name))>>)
         ELSE RegistryEvent("execute", name, <<registry[name]>>, <<outcome>>, <<outcome>>))

(* SpecRegistry: register, unregister and execute in any order. *)
InitRegistry == InitClient /\ config = <<>> /\ Unused

registryFrame ==
    <<vars, discovered, bridge, executed, toolCallLogs,
      maxIterations, compressConfig, agent, chat, compress, backend, returned>>

NextRegistry ==
    \/ \E name \in RegistryNames, executor \in Executors :
         /\ Len(trace) < MaxRegistryOps
         /\ RegistryRegister(name, executor) /\ UNCHANGED registryFrame
    \/ \E name \in RegistryNames :
         /\ Len(trace) < MaxRegistryOps
         /\ RegistryUnregister(name) /\ UNCHANGED registryFrame
    \/ \E name \in RegistryNames, outcome \in ExecutorOutcomes :
         /\ Len(trace) < MaxRegistryOps
         /\ RegistryExecute(name, outcome) /\ UNCHANGED registryFrame

SpecRegistry == InitRegistry /\ [][NextRegistry]_allVars

\* the executor of the latest register of `name` in the record that no
\* unregister of `name` follows, as a sequence of at most one element
RECURSIVE Latest(_, _)
Latest(log, name) ==
    IF log = <<>> THEN <<>>
    ELSE LET last == log[Len(log)]
         IN IF last.name = name /\ last.event = "register" THEN last.executor
            ELSE IF last.name = name /\ last.event = "unregister" THEN <<>>
            ELSE Latest(SubSeq(log, 1, Len(log) - 1), name)

\* C25: the registry holds for each name the executor of the latest register
\* of that name not followed by an unregister, and nothing for other names;
\* an execute on an absent name fails with the not-found error and runs no
\* executor, and any other execute runs the executor registered at that
\* time, once, and returns what it produced.
C25_RegistryLastWriteWins ==
    /\ \A name \in RegistryNames :
         Latest(trace, name) = IF name \in DOMAIN registry THEN <<registry[name]>> ELSE <<>>
    /\ DOMAIN registry \subseteq RegistryNames
    /\ \A i \in 1..Len(trace) :
         trace[i].event = "execute" =>
            LET current == Latest(SubSeq(trace, 1, i - 1), trace[i].name)
            IN IF current = <<>>
               THEN /\ trace[i].executor = <<>>
                    /\ trace[i].result = <<Answer("error", NotFoundMessage(trace[i].name))>>
               ELSE /\ trace[i].executor = current
                    /\ Len(trace[i].outcome) = 1
                    /\ trace[i].result = trace[i].outcome

\* C25 witness: a name registered twice with different executors was
\* executed, running the second, and then unregistered
C25_Witness ==
    \E name \in RegistryNames : \E i, j, k, l \in 1..Len(trace) :
        /\ i < j /\ j < k /\ k < l
        /\ trace[i].name = name /\ trace[i].event = "register"
        /\ trace[j].name = name /\ trace[j].event = "register"
        /\ trace[j].executor # trace[i].executor
        /\ trace[k].name = name /\ trace[k].event = "execute"
        /\ trace[k].executor = trace[j].executor
        /\ trace[l].name = name /\ trace[l].event = "unregister"

(***************************************************************************)
(* The ToolCallLog of mcp-bridge.ts over long runs of invocations.         *)
(***************************************************************************)

\* runs of invocations in a behaviour
MaxBursts == 2

\* a run is one invocation, or as many as nearly fill the log
BurstLengths == {1, LogLimit - 1}

\* the run of the latest invocation (0: none so far), and what is left of it
Bursts == IF executed = <<>> THEN 0 ELSE executed[Len(executed)].burst
Left == IF executed = <<>> THEN 0 ELSE executed[Len(executed)].left

\* the record pushed at lines 74-82 by the executor of `name`, started as
\* the timestamp-th invocation
LogRecord(name, success, timestamp) ==
    [server |-> registry[name].server, tool |-> registry[name].tool,
     success |-> success, timestamp |-> timestamp]

\* an invocation of the executor of `name` completes: the push and the
\* splice of lines 74-87
Invoke(name, success, burst, left) ==
    /\ executed' = Append(executed,
                          [name |-> name, success |-> success,
                           timestamp |-> Len(executed) + 1,
                           burst |-> burst, left |-> left])
    /\ toolCallLogs' = PushLog(toolCallLogs, LogRecord(name, success, Len(executed) + 1))
    /\ UNCHANGED <<discovered, registry, bridge>>

\* a run of n invocations of one tool begins
Burst(name, success, n) ==
    /\ Left = 0
    /\ Bursts < MaxBursts
    /\ Invoke(name, success, Bursts + 1, n - 1)

\* the run goes on
BurstGoesOn ==
    /\ Left > 0
    /\ Invoke(executed[Len(executed)].name, executed[Len(executed)].success,
              Bursts, Left - 1)

(* SpecLog: the tools of one server registered, then runs of invocations. *)
InitLog ==
    /\ InitClient /\ config = <<>>
    /\ AgentUnused
    /\ discovered = <<[server |-> <<"a">>, tools |-> <<<<"c">>, <<"b", "_", "c">>>>]>>
    /\ registry = RegisterServers(NoRegistry, discovered)
    /\ bridge = [pc |-> "done", totalTools |-> CountTools(discovered)]
    /\ executed = <<>>
    /\ toolCallLogs = <<>>

NextLog ==
    \/ \E name \in DOMAIN registry, success \in BOOLEAN, n \in BurstLengths :
         Burst(name, success, n) /\ UNCHANGED <<vars, agentVars>>
    \/ BurstGoesOn /\ UNCHANGED <<vars, agentVars>>

SpecLog == InitLog /\ [][NextLog]_allVars

\* C26: the log holds at most LogLimit records, and they are the records of
\* the most recent invocations, in the order the invocations completed.
C26_LogBoundedRing ==
    LET n == Len(executed)
        k == IF n > LogLimit THEN LogLimit ELSE n
    IN /\ Len(toolCallLogs) = k
       /\ Len(toolCallLogs) <= LogLimit
       /\ \A i \in 1..k :
            toolCallLogs[i] = LogRecord(executed[n - k + i].name,
                                        executed[n - k + i].success,
                                        executed[n - k + i].timestamp)

\* C26 witness: more than LogLimit invocations completed, and the log holds
\* the end of one run and the whole of the next
C26_Witness ==
    /\ Len(executed) > LogLimit
    /\ Len(toolCallLogs) = LogLimit
    /\ toolCallLogs[1].timestamp = Len(executed) - LogLimit + 1
    /\ toolCallLogs[1].tool # toolCallLogs[LogLimit].tool

(***************************************************************************)
(* The whole chain: Agent.chat -> handleToolCalls -> ToolRegistry.execute  *)
(* -> the executor of createMCPExecutor -> MCPClient.callTool, with one    *)
(* tool server.  The awaits of execute, of the executor and of callTool    *)
(* resume in the microtasks of the event that settles the request, so the  *)
(* event and the return of the executor into handleToolCalls are one step. *)
(***************************************************************************)

\* chat invocations and tool invocations of a run
MaxEchoChats == 1
MaxEchoCalls == 2

\* the defaults of chat.ts line 45 and of part_005 lines 17 and 19
DefaultMaxIterations == 20
DefaultMaxTokens == 24000
DefaultKeepRecent == 4

\* the tool server "a" with its tool, and the name its tool is registered by
EchoServer == <<"a">>
EchoTool == <<"e">>
EchoName == RegisteredName(EchoServer, EchoTool)

\* the key of config.mcpServers that a one-character server name is
ServerKey(serverName) == serverName[1]

\* the argument string {"text": v} of an invocation, and its text
ArgsOf(v) == <<"{">> \o v \o <<"}">>
TextOf(arguments) == SubSeq(arguments, 2, Len(arguments) - 1)

\* the MCPToolResult objects a response with payload v may carry: one text
\* item, the same with isError, no content, two text items
ToolResult(content, isError) == [content |-> content, isError |-> isError]
ToolResults(v) ==
    {ToolResult(<<v>>, FALSE), ToolResult(<<v>>, TRUE), ToolResult(<<>>, FALSE),
     ToolResult(<<v, v>>, FALSE)}

\* JSON.stringify(result) and JSON.stringify({ error: message })
Stringified(result) == <<"{", "c", "}">>
ErrorJson(message) == <<"{", "e">> \o message \o <<"}">>

\* content.map(c => c.text || JSON.stringify(c)).join('\n')
RECURSIVE JoinLines(_)
JoinLines(content) ==
    IF content = <<>> THEN <<>>
    ELSE IF Len(content) = 1 THEN Head(content)
    ELSE Head(content) \o <<"\n">> \o JoinLines(Tail(content))

\* the conversion giving the JSON text of the result in every case
ResultStringStringified(result) == Stringified(result)

\* lines 56-62: the result as a string
ResultString(result) ==
    IF result.content # <<>> THEN JoinLines(result.content) ELSE Stringified(result)

\* the messages of the errors callTool rejects with (part_006 lines 511,
\* 525, 580 and 628)
NotConnectedMessage == <<"N">>
TimeoutMessage == <<"T">>
ProtocolMessage(v) == <<"P">> \o v
DisconnectedMessage == <<"D">>

\* how the try / catch of lines 52-71 ends: with a result, or in the catch
Resolved(result) ==
    [returned |-> ResultString(result), success |-> ~result.isError,
     ended |-> IF result.isError THEN "isError" ELSE "result", result |-> <<result>>]
Caught(ended, message) ==
    [returned |-> ErrorJson(message), success |-> FALSE, ended |-> ended,
     result |-> <<>>]

\* the push placed inside the try, after the conversion
LogCallUnlessCaught(logs, executor, outcome) ==
    IF outcome.result = <<>> THEN logs
    ELSE PushLog(logs, [server |-> executor.server, tool |-> executor.tool,
                        success |-> outcome.success])

\* lines 74-87: the record of the invocation
LogCall(logs, executor, outcome) ==
    PushLog(logs, [server |-> executor.server, tool |-> executor.tool,
                   success |-> outcome.success])

\* what the executor makes of the settled request r
OutcomesOf(r) ==
    IF r.state = "result" THEN {Resolved(result) : result \in ToolResults(r.value)}
    ELSE IF r.state = "error" THEN {Caught("error", ProtocolMessage(r.value))}
    ELSE IF r.state = "timeout" THEN {Caught("timeout", TimeoutMessage)}
    ELSE {Caught("disconnected", DisconnectedMessage)}

\* the executor of the invocation at the head of chat.pending returns
\* `outcome.returned` through execute into handleToolCalls (lines 73-90 of
\* mcp-bridge.ts, then lines 182-202 of chat.ts)
ExecutorReturns(outcome) ==
    /\ toolCallLogs' = LogCall(toolCallLogs, registry[Head(chat.pending).name], outcome)
    /\ executed' = Append(executed,
                          [name |-> Head(chat.pending).name, call |-> Head(chat.pending).id,
                           ended |-> outcome.ended, result |-> outcome.result,
                           returned |-> outcome.returned])
    /\ ExecutorSettles(Answer("text", outcome.returned))
    /\ UNCHANGED <<discovered, registry, bridge, maxIterations, compressConfig>>

\* the request of the running executor is settled in this step
Settling ==
    /\ chat.pc = "executing"
    /\ req[requestId].state = "pending"
    /\ req'[requestId].state # "pending"

\* the microtasks after an event of the client
Resume ==
    IF Settling
    THEN \E outcome \in OutcomesOf(req'[requestId]) : ExecutorReturns(outcome)
    ELSE UNCHANGED <<bridgeVars, agentVars>>

\* the backend requests one invocation of the server's tool: handleToolCalls
\* runs its executor, whose callTool writes the request, or throws at once
\* when the server has no connection
EchoThinkTools(calls) ==
    /\ chat.pc = "thinking"
    /\ jobs = <<>>
    /\ LET tc == Head(calls)
           key == ServerKey(registry[tc.name].server)
           m == Append(agent.messages, Message("assistant", <<>>, calls, <<>>))
           log == Responded(backend, Answer("tools", calls))
           outcome == Caught("notConnected", NotConnectedMessage)
       IN IF connections[key] # 0
          THEN /\ Acting(agent, chat.finalResponse, HandleToolCalls(m, calls), trace, log)
               /\ SendRequest(key, "tools/call", 0)
               /\ UNCHANGED <<executed, toolCallLogs>>
          ELSE /\ Acting(agent, chat.finalResponse,
                         [messages |-> Append(m, ToolTurn(tc.id, outcome.returned)),
                          pending |-> <<>>],
                         trace \o <<[event |-> "start", id |-> tc.id],
                                    [event |-> "text", id |-> tc.id]>>,
                         log)
               /\ toolCallLogs' = LogCall(toolCallLogs, registry[tc.name], outcome)
               /\ executed' = Append(executed,
                                     [name |-> tc.name, call |-> tc.id,
                                      ended |-> outcome.ended, result |-> outcome.result,
                                      returned |-> outcome.returned])
               /\ UNCHANGED <<requestId, req, conn, proc>>
    /\ UNCHANGED <<connections, call, jobs, all, compress,
                   discovered, registry, bridge, maxIterations, compressConfig>>

(* SpecEcho: registerMCPTools done with server "a" ready, then chat. *)
InitEcho ==
    /\ config = <<"a">>
    /\ requestId = 2
    /\ connections = [n \in Servers |-> IF n = "a" THEN 1 ELSE 0]
    /\ conn = <<ReadyConnection>>
    /\ proc = <<Handshake("a", 1)>>
    /\ req = <<Answered("initialize", 1), Answered("tools/list", 1)>>
    /\ call = <<Frame("a", "done", 1, TRUE, <<"x">>)>>
    /\ jobs = <<>>
    /\ all = [pc |-> "done", idx |-> 1, results |-> SetResult(NoResults, "a", <<"x">>)]
    /\ fed = <<>>
    /\ parsed = <<>>
    /\ discovered = <<[server |-> EchoServer, tools |-> <<EchoTool>>]>>
    /\ registry = RegisterServers(NoRegistry, discovered)
    /\ bridge = [pc |-> "done", totalTools |-> CountTools(discovered)]
    /\ executed = <<>>
    /\ toolCallLogs = <<>>
    /\ maxIterations = DefaultMaxIterations
    /\ compressConfig = [maxTokens |-> DefaultMaxTokens,
                         keepRecentMessages |-> DefaultKeepRecent]
    /\ InitAgentState

\* the lines the server may write: a result or an error for a request sent
\* so far, with either payload, a notification, a line that is no JSON
EchoLines ==
    {ResultLine(i, v) : i \in 1..requestId, v \in Payloads}
    \cup {ErrorLine(i, <<"x">>) : i \in 1..requestId}
    \cup {NotificationLine(<<"x">>), GarbageLine}

\* the invocations a response may request
EchoRequests == {<<ToolCall(<<Len(backend), 1>>, EchoName, ArgsOf(v))>> : v \in Payloads}

clientFrame == <<config, fed, parsed>>

NextEcho ==
    \/ /\ Len(returned) < MaxEchoChats
       /\ Chat /\ UNCHANGED agentFrame
    \/ ThinkText(<<"t">>) /\ UNCHANGED agentFrame
    \/ \E calls \in EchoRequests :
         /\ Invocations(backend) < MaxEchoCalls
         /\ EchoThinkTools(calls) /\ UNCHANGED clientFrame
    \/ \E d \in EchoLines :
         StdoutData(1, d, 0) /\ Resume /\ UNCHANGED clientFrame
    \/ \E id \in 1..Len(req) :
         Timeout(id) /\ Resume /\ UNCHANGED clientFrame
    \/ DisconnectServer("a") /\ Resume /\ UNCHANGED clientFrame
    \/ ProcessExit(1) /\ Resume /\ UNCHANGED clientFrame

SpecEcho == InitEcho /\ [][NextEcho]_allVars

\* the tool turns of the state that answer invocation id
TurnsFor(id) ==
    {i \in 1..Len(agent.messages) :
        agent.messages[i].role = "tool" /\ agent.messages[i].tool_call_id = id}

\* C27: every invocation of a bridged executor that was started has returned
\* or is waiting for its request; each one that returned left exactly one
\* record in the log, gave handleToolCalls a string (its tool turn holds it,
\* and no chat threw), and its record's success flag is false exactly when
\* callTool threw or the result carried isError.
C27_ExecutorAlwaysLogs ==
    /\ Invocations(backend) = Len(executed) + (IF chat.pc = "executing" THEN 1 ELSE 0)
    /\ Len(toolCallLogs) = Len(executed)
    /\ \A i \in 1..Len(executed) :
         /\ toolCallLogs[i].server = EchoServer
         /\ toolCallLogs[i].tool = EchoTool
         /\ toolCallLogs[i].success = (executed[i].ended = "result")
         /\ executed[i].ended
              \in {"result", "isError", "error", "timeout", "disconnected", "notConnected"}
         /\ \A t \in TurnsFor(executed[i].call) :
              agent.messages[t].content = executed[i].returned
         /\ Cardinality(TurnsFor(executed[i].call)) = 1
    /\ \A i \in 1..Len(trace) : trace[i].event # "error"
    /\ \A c \in 1..Len(returned) : ~returned[c].threw

\* C27 witness: an invocation whose result carried isError, and a later one
\* that found the server no longer connected
C27_Witness ==
    /\ Len(executed) = 2
    /\ executed[1].ended = "isError"
    /\ executed[2].ended = "notConnected"
    /\ Len(returned) = 1

\* the backend calls of the c-th chat invocation
CallsOf(c) == SelectSeq(backend, LAMBDA b : b.chat = c)

\* C28: when the backend of a chat first requests the server's tool with a
\* text, the server answers that request with the text as its one content
\* item, and the backend then answers in plain text, the state ends with
\* the assistant turn carrying the request, one tool turn for it holding the
\* text, and the final assistant turn, whose text chat returns.
C28_EchoScenario ==
    \A v \in Payloads :
        (/\ chat.pc = "idle" /\ Len(returned) >= 1
         /\ \E calls \in {CallsOf(Len(returned))} :
              /\ Len(calls) = 2
              /\ calls[1].answer.kind = "tools"
              /\ Len(calls[1].answer.content) = 1
              /\ calls[1].answer.content[1].name = EchoName
              /\ calls[1].answer.content[1].arguments = ArgsOf(v)
              /\ calls[2].answer = Answer("text", <<"t">>)
              /\ \E i \in 1..Len(executed) :
                   /\ executed[i].call = calls[1].answer.content[1].id
                   /\ executed[i].result = <<ToolResult(<<v>>, FALSE)>>)
        => \E calls \in {CallsOf(Len(returned))} :
              LET tc == calls[1].answer.content[1]
                  n == Len(agent.messages)
              IN /\ n >= 3
                 /\ agent.messages[n - 2] = Message("assistant", <<>>, <<tc>>, <<>>)
                 /\ agent.messages[n - 1] = ToolTurn(tc.id, v)
                 /\ agent.messages[n] = Turn("assistant", <<"t">>)
                 /\ Cardinality(TurnsFor(tc.id)) = 1
                 /\ returned[Len(returned)] = [threw |-> FALSE, value |-> <<"t">>]

\* C28 witness: the scenario ran with the two-byte payload
C28_Witness ==
    /\ chat.pc = "idle" /\ Len(returned) = 1
    /\ Len(backend) = 2
    /\ backend[2].answer = Answer("text", <<"t">>)
    /\ Len(executed) = 1
    /\ executed[1].result = <<ToolResult(<<"U">>, FALSE)>>
    /\ backend[1].answer.content[1].arguments = ArgsOf(<<"U">>)

\* the state a settled request is in after the response line d
StateAfter(d) == IF d \in {ErrorLine(i, <<"x">>) : i \in 1..Len(Digits)} THEN "error" ELSE "result"

\* the requests pending on the connection of server n
PendingOf(n) == IF connections[n] = 0 THEN {} ELSE conn[connections[n]].pendingRequests

\* C29: in every state, whatever is pending on whichever connections, the
\* response line of a pending request settles that request in the call of
\* handleServerData that receives it, removes it alone from its connection's
\* pendingRequests, and changes no other request and no other connection; two
\* responses in one chunk settle both requests in either order.
C29_NoHeadOfLineBlocking ==
    \A n \in Connected : \A i \in PendingOf(n) :
        /\ req[i].state = "pending"
        /\ \A d \in ResponsesFor(i) :
             \E H \in {HandleServerData(n, d)} :
                /\ H.req[i].state = StateAfter(d)
                /\ H.req[i].timer = "cleared"
                /\ H.conn[connections[n]].pendingRequests = PendingOf(n) \ {i}
                /\ \A j \in 1..Len(req) : j # i => H.req[j] = req[j]
                /\ \A c \in 1..Len(conn) : c # connections[n] => H.conn[c] = conn[c]
        /\ \A j \in PendingOf(n) \ {i} : \A d \in ResponsesFor(i), e \in ResponsesFor(j) :
             \E H \in {HandleServerData(n, d \o e)} :
                /\ H.req[i].state = StateAfter(d)
                /\ H.req[j].state = StateAfter(e)
                /\ H.conn[connections[n]].pendingRequests = PendingOf(n) \ {i, j}
                /\ \A k \in 1..Len(req) : k \notin {i, j} => H.req[k] = req[k]

\* C29 witness: two requests were pending on one connection and one on the
\* other; the later of the two has been answered while the earlier and the
\* one on the other connection still wait
C29_Witness ==
    \E n, m \in Connected : \E i, j, k \in 1..Len(req) :
        /\ n # m /\ i < j
        /\ i \in PendingOf(n) /\ k \in PendingOf(m)
        /\ req[j].conn = connections[n]
        /\ req[j].state \in {"result", "error"}
        /\ req[j].method = "tools/call"

\* the ids of the requests written to the stdin of subprocess p
IdsSentTo(p) == {proc[p].stdin[w].id : w \in 1..Len(proc[p].stdin)} \ {0}

\* C30: when a server has had an earlier and a later connection under one
\* name, no id sent on the earlier one is pending on the later one, and in
\* every state a response line carrying such an id leaves every request sent
\* on the later connection, and its pendingRequests, as they are.
C30_StaleResponsesMissNewRequests ==
    \A p, q \in 1..Len(proc) :
        (p < q /\ proc[p].name = proc[q].name) =>
            \A id \in IdsSentTo(p) :
                /\ id \notin IdsSentTo(q)
                /\ id \notin conn[q].pendingRequests
                /\ \A d \in ResponsesFor(id) :
                     \E H \in {HandleServerData(proc[q].name, d)} :
                        /\ H.conn[q].pendingRequests = conn[q].pendingRequests
                        /\ \A j \in 1..Len(req) : req[j].conn = q => H.req[j] = req[j]

\* C30 witness: a server was disconnected or exited with a request sent, was
\* connected again under the same name, and a request is pending on the new
\* connection
C30_Witness ==
    \E p, q \in 1..Len(proc) :
        /\ p < q /\ proc[p].name = proc[q].name
        /\ proc[p].state # "running"
        /\ IdsSentTo(p) # {}
        /\ connections[proc[q].name] = q
        /\ conn[q].pendingRequests # {}
        /\ \E j \in conn[q].pendingRequests : req[j].state = "pending" /\ req[j].conn = q

\* the lines that are blank or do not parse
DiscardedLines == {GarbageLine, BlankLine}

\* C31: a blank line or a line that is no JSON, arriving at a line boundary,
\* changes nothing: the step that receives it leaves the connection table,
\* the connection (ready flag, pending set, buffer), every request and the
\* job queue as they are; and in every state such a line in front of a
\* chunk, or between two lines of it, does not change what handleServerData
\* makes of the chunk's other lines.
C31_MalformedLinesDiscarded ==
    /\ [][\A b \in DiscardedLines :
            (conn[1].buffer = <<>> /\ fed' = fed \o b)
            => /\ UNCHANGED <<connections, conn, req, jobs, proc, requestId>>
               /\ parsed' = parsed]_vars
    /\ [](conn[1].buffer = <<>> =>
            \A b \in DiscardedLines :
               /\ HandleServerData("a", b) = [conn |-> conn, req |-> req, jobs |-> jobs]
               /\ \A d \in FrameLines :
                    /\ HandleServerData("a", b \o d) = HandleServerData("a", d)
                    /\ \A e \in FrameLines :
                         HandleServerData("a", d \o b \o e) = HandleServerData("a", d \o e))

\* C31 witness: the request was answered by a line that followed a line that
\* is no JSON
C31_Witness ==
    /\ fed = GarbageLine \o ResultLine(3, <<"x">>)
    /\ req[3].state = "result"
    /\ conn[1].pendingRequests = {}
    /\ conn[1].ready /\ connections["a"] = 1

\* C34: whenever chat has returned (a final answer, the backend failure
\* reply or the iteration-bound reply), state.isRunning is false.
C34_NotRunningAfterReturn ==
    (/\ chat.pc = "idle" /\ returned # <<>>
     /\ ~returned[Len(returned)].threw
     /\ maxIterations >= 1)
    => ~agent.isRunning

\* the tool turns of `messages` with no earlier assistant turn carrying an
\* invocation of the same id
Orphans(messages) ==
    {i \in 1..Len(messages) :
        /\ messages[i].role = "tool"
        /\ ~\E j \in 1..(i - 1) :
              /\ messages[j].role = "assistant"
              /\ \E k \in 1..Len(messages[j].tool_calls) :
                    messages[j].tool_calls[k].id = messages[i].tool_call_id}

\* C38: in every conversation state submitted to the completion backend by
\* the loop, each tool turn is preceded by an assistant turn carrying the
\* invocation with its id.
C38_ToolTurnsFollowTheirRequest ==
    \A b \in 1..Len(backend) :
        backend[b].purpose = "think" => Orphans(backend[b].messages) = {}

\* s is a prefix of t
IsPrefix(s, t) == Len(s) <= Len(t) /\ SubSeq(t, 1, Len(s)) = s

\* C32: every step of chat, of the loop and of handleToolCalls leaves the
\* turns of the state in place and only appends; the one step that does
\* otherwise is the return of compress into chat, which happens before the
\* loop starts and at most once in a chat.
C32_AppendOnlyOutsideCompaction ==
    /\ [][chat.pc \in {"idle", "thinking", "executing"}
          => IsPrefix(agent.messages, agent'.messages)]_allVars
    /\ [][~IsPrefix(agent.messages, agent'.messages)
          => chat.pc = "compressing" /\ chat'.pc # "compressing"]_allVars
    /\ [][chat'.pc = "compressing" => chat.pc = "idle"]_allVars

\* C32 witness: a second chat returned; its state was compacted and then
\* grew by an assistant turn with an invocation, the tool turn and the answer
C32_Witness ==
    /\ Len(returned) = 2 /\ chat.pc = "idle"
    /\ compress.requests = 1
    /\ Len(agent.messages) >= 3
    /\ agent.messages[Len(agent.messages)].role = "assistant"
    /\ agent.messages[Len(agent.messages) - 1].role = "tool"

\* the 'server-error' events emitted for a server so far: by the 'error'
\* handler of a subprocess that could not be spawned (line 428), and by the
\* catch of connectAll for a connectServer call that threw (line 611)
ErrorHandlerEvents(name) ==
    {p \in 1..Len(proc) : proc[p].name = name /\ proc[p].state = "failed"}
CatchEvents(name) ==
    {k \in 1..Len(call) :
        /\ call[k].name = name /\ call[k].viaAll /\ call[k].pc = "failed"
        /\ ~\E i \in 1..Len(jobs) : jobs[i].kind = "connectAll" /\ jobs[i].call = k}
ServerErrors(name) ==
    Cardinality(ErrorHandlerEvents(name)) + Cardinality(CatchEvents(name))

\* the servers whose connection attempt by connectAll failed
FailedServers ==
    {call[k].name : k \in {j \in 1..Len(call) : call[j].viaAll /\ call[j].pc = "failed"}}

\* C33: when connectAll has returned, each server whose attempt failed has
\* caused exactly one server-error event.
C33_OneErrorEventPerFailure ==
    all.pc = "done" => \A n \in FailedServers : ServerErrors(n) = 1

\* C35: the exit event of a subprocess leaves the table entry of its server
\* alone when that entry belongs to another (later) subprocess.
C35_ExitRemovesOwnEntryOnly ==
    [][\A p \in 1..Len(proc) :
          (proc[p].state # "exited" /\ proc'[p].state = "exited"
           /\ connections[proc[p].name] # p)
          => connections'[proc[p].name] = connections[proc[p].name]]_vars

\* the subprocesses that are running
Running == {p \in 1..Len(proc) : proc[p].state = "running"}

\* C36: a connectServer(name) call made while the name has an entry that is
\* not ready spawns no subprocess and leaves the entry; in every state the
\* running subprocesses of a name are at most one, the one its entry holds.
C36_OneSubprocessPerName ==
    /\ [][\A n \in Configured :
            (/\ connections[n] # 0 /\ ~conn[connections[n]].ready
             /\ Len(call') > Len(call) /\ call'[Len(call')].name = n)
            => Len(proc') = Len(proc) /\ connections'[n] = connections[n]]_vars
    /\ [](\A q \in Running : connections[proc[q].name] = q)

\* C37: a step that takes a connection out of the table (disconnect, exit or
\* error of its subprocess) settles every request pending on it, and in
\* every state a request is pending only on a connection that is in the table.
C37_NoRequestOutlivesConnection ==
    /\ [][\A c \in 1..Len(conn) :
            (connections[proc[c].name] = c /\ connections'[proc[c].name] # c)
            => \A i \in conn[c].pendingRequests : req'[i].state # "pending"]_vars
    /\ [](\A i \in 1..Len(req) :
            req[i].state = "pending" => connections[proc[req[i].conn].name] = req[i].conn)

\* no server of the discovery lists a tool name twice
NoToolListedTwice ==
    \A i \in 1..Len(discovered) : \A j, k \in 1..Len(discovered[i].tools) :
        discovered[i].tools[j] = discovered[i].tools[k] => j = k

\* C39: distinct discovered (server, tool) pairs have distinct registered
\* names, so after registerMCPTools each pair's name holds its own executor
\* and the returned count is the number of registry entries added.
C39_RegisteredNameInjective ==
    /\ \A d, e \in DiscoveredTools :
         RegisteredName(d[1], d[2]) = RegisteredName(e[1], e[2]) => d = e
    /\ (bridge.pc = "done" /\ NoToolListedTwice) =>
         /\ \A d \in DiscoveredTools :
              registry[RegisteredName(d[1], d[2])] = CreateMCPExecutor(d[1], d[2])
         /\ bridge.totalTools = Cardinality(DOMAIN registry)

(***************************************************************************)
(* POST /api/chat (src/unnamed/part_006, lines 125-157): the handler takes *)
(* the length of getToolCallLogs() before agent.chat and returns the      *)
(* entries of getToolCallLogs() from that index on.  Each session has its  *)
(* own Agent; the log of mcp-bridge.ts is shared by all of them.  In these *)
(* runs `chat` holds the handler's frame of each session, `executed` every *)
(* record ever pushed, and `returned` the responses.                       *)
(***************************************************************************)

\* handler invocations of a run, and executor runs within one agent.chat
MaxApiChats == 2
MaxApiCalls == 2

\* the default of getToolCallLogs(limit = 50)
DefaultLimit == 50

Sessions == {"s1", "s2"}

\* the bridged tool the agents invoke
ApiTool == RegisteredName(<<"a">>, <<"c">>)

\* getToolCallLogs(limit): toolCallLogs.slice(-limit)
GetToolCallLogs(logs, limit) ==
    IF Len(logs) <= limit THEN logs ELSE SubSeq(logs, Len(logs) - limit + 1, Len(logs))

\* Array.prototype.slice(start) for start >= 0
SliceFrom(seq, start) ==
    IF start >= Len(seq) THEN <<>> ELSE SubSeq(seq, start + 1, Len(seq))

\* the handler's frame: logsBefore, and (history) the records pushed by the
\* executors of this agent.chat call
IdleHandler == [pc |-> "idle", logsBefore |-> 0, appended |-> <<>>]

\* the handler runs up to `await agent.chat(message)`, lines 126-140
ApiChat(s) ==
    /\ chat[s].pc = "idle"
    /\ chat' = [chat EXCEPT ![s] =
                  [pc |-> "chatting",
                   logsBefore |-> Len(GetToolCallLogs(toolCallLogs, DefaultLimit)),
                   appended |-> <<>>]]
    /\ UNCHANGED <<toolCallLogs, executed, returned>>

\* a bridged executor run by the session's agent.chat completes: the push
\* and the splice of mcp-bridge.ts lines 74-87
ApiInvoke(s, success) ==
    /\ chat[s].pc = "chatting"
    /\ Len(chat[s].appended) < MaxApiCalls
    /\ \E record \in {LogRecord(ApiTool, success, Len(executed) + 1)} :
          /\ toolCallLogs' = PushLog(toolCallLogs, record)
          /\ executed' = Append(executed, record)
          /\ chat' = [chat EXCEPT ![s].appended = Append(@, record)]
    /\ UNCHANGED returned

\* agent.chat returns and the handler responds, lines 142-150
ApiRespond(s) ==
    /\ chat[s].pc = "chatting"
    /\ returned' = Append(returned,
                          [session |-> s,
                           toolCalls |-> SliceFrom(GetToolCallLogs(toolCallLogs, DefaultLimit),
                                                   chat[s].logsBefore),
                           appended |-> chat[s].appended])
    /\ chat' = [chat EXCEPT ![s] = IdleHandler]
    /\ UNCHANGED <<toolCallLogs, executed>>

\* the records of n earlier invocations
Earlier(n) == [i \in 1..n |-> LogRecord(ApiTool, TRUE, i)]

\* the numbers of records pushed before the run
EarlierCounts == {0, DefaultLimit - 1, DefaultLimit, LogLimit}

(* SpecApi: two sessions created, the server's tool registered, the log
   holding the records of earlier invocations. *)
InitApi ==
    /\ InitClient /\ config = <<>>
    /\ discovered = <<[server |-> <<"a">>, tools |-> <<<<"c">>>>]>>
    /\ registry = RegisterServers(NoRegistry, discovered)
    /\ bridge = [pc |-> "done", totalTools |-> CountTools(discovered)]
    /\ \E n \in EarlierCounts : executed = Earlier(n) /\ toolCallLogs = Earlier(n)
    /\ maxIterations = DefaultMaxIterations
    /\ compressConfig = [maxTokens |-> DefaultMaxTokens,
                         keepRecentMessages |-> DefaultKeepRecent]
    /\ agent = NewAgentState
    /\ chat = [s \in Sessions |-> IdleHandler]
    /\ compress = NoCompress
    /\ backend = <<>>
    /\ trace = <<>>
    /\ returned = <<>>

apiFrame ==
    <<vars, discovered, registry, bridge,
      maxIterations, compressConfig, agent, compress, backend, trace>>

\* the handler invocations begun so far
ApiChats == Len(returned) + Cardinality({s \in Sessions : chat[s].pc = "chatting"})

NextApi ==
    \/ \E s \in Sessions :
         ApiChats < MaxApiChats /\ ApiChat(s) /\ UNCHANGED apiFrame
    \/ \E s \in Sessions, success \in BOOLEAN :
         ApiInvoke(s, success) /\ UNCHANGED apiFrame
    \/ \E s \in Sessions : ApiRespond(s) /\ UNCHANGED apiFrame

SpecApi == InitApi /\ [][NextApi]_allVars

\* C40: every response of the handler carries in toolCalls exactly the
\* records pushed during its agent.chat call, in order.
C40_ToolCallsOfThisChat ==
    \A i \in 1..Len(returned) : returned[i].toolCalls = returned[i].appended

====
